---- MODULE Spec2Model ----
(***************************************************************************)
(* Ticket reporting: text normalisation, status taxonomy, filters and the  *)
(* monthly pivot / SLA / flow tables, modelled from the Python sources.    *)
(*                                                                         *)
(* Text values are TLA+ strings.  Character-level functions work on the    *)
(* sequence of characters of a string (Chars); a character is a one-       *)
(* character string, or, for a code point outside Latin-1, the token       *)
(* "U+XXXX".  Column headers are kept as character sequences so that they  *)
(* can hold such code points.                                              *)
(***************************************************************************)
EXTENDS Integers, Sequences, FiniteSets, TLC

VARIABLES
    header,     \* an incoming column header, as a character sequence
    key,        \* normalize_column_name(header), or NoText before the call
    records,    \* the enriched record set the dashboard works on
    call,       \* the last call made: its name and arguments
    result      \* what the last call returned

vars == <<header, key, records, call, result>>

headerVars == <<header, key>>
tableVars == <<records, call, result>>

(***************************************************************************)
(* Characters                                                              *)
(***************************************************************************)
Chars(s) == [i \in 1..Len(s) |-> SubSeq(s, i, i)]

RECURSIVE Str(_)
Str(cs) == IF Len(cs) = 0 THEN "" ELSE Head(cs) \o Str(Tail(cs))

RECURSIVE Flatten(_)
Flatten(ss) == IF Len(ss) = 0 THEN <<>> ELSE Head(ss) \o Flatten(Tail(ss))

ASCII_UPPER == "ABCDEFGHIJKLMNOPQRSTUVWXYZ"
ASCII_LOWER == "abcdefghijklmnopqrstuvwxyz"
ACCENT_UPPER == "ÁÉÍÓÚÑÃ"
ACCENT_LOWER == "áéíóúñã"
DIGITS == "0123456789"

\* combining acute accent, combining tilde
COMBINING_ACUTE == "U+0301"
COMBINING_TILDE == "U+0303"
\* TRADE MARK SIGN and NUMERO SIGN: compatibility characters without case
TRADE_MARK == "U+2122"
NUMERO == "U+2116"

CharSet(s) == {SubSeq(s, i, i) : i \in 1..Len(s)}

IndexIn(c, s) == CHOOSE i \in 1..Len(s) : SubSeq(s, i, i) = c

\* str.lower() on one character
char_lower(c) ==
    IF c \in CharSet(ASCII_UPPER) THEN SubSeq(ASCII_LOWER, IndexIn(c, ASCII_UPPER), IndexIn(c, ASCII_UPPER))
    ELSE IF c \in CharSet(ACCENT_UPPER) THEN SubSeq(ACCENT_LOWER, IndexIn(c, ACCENT_UPPER), IndexIn(c, ACCENT_UPPER))
    ELSE c

\* str.upper() on one character
char_upper(c) ==
    IF c \in CharSet(ASCII_LOWER) THEN SubSeq(ASCII_UPPER, IndexIn(c, ASCII_LOWER), IndexIn(c, ASCII_LOWER))
    ELSE IF c \in CharSet(ACCENT_LOWER) THEN SubSeq(ACCENT_UPPER, IndexIn(c, ACCENT_LOWER), IndexIn(c, ACCENT_LOWER))
    ELSE c

\* unicodedata.combining(ch) != 0
combining(c) == c \in {COMBINING_ACUTE, COMBINING_TILDE}

\* str.isalpha() / str.isalnum() / str.isspace() on one character
isalpha(c) == c \in CharSet(ASCII_UPPER) \cup CharSet(ASCII_LOWER)
                     \cup CharSet(ACCENT_UPPER) \cup CharSet(ACCENT_LOWER)
isalnum(c) == isalpha(c) \/ c \in CharSet(DIGITS)
isspace(c) == c \in {" ", "\t"}

\* unicodedata.normalize("NFKD", ch) for one character
NFKD_char(c) ==
    IF c \in CharSet("áéíóú") THEN <<SubSeq("aeiou", IndexIn(c, "áéíóú"), IndexIn(c, "áéíóú")), COMBINING_ACUTE>>
    ELSE IF c \in CharSet("ÁÉÍÓÚ") THEN <<SubSeq("AEIOU", IndexIn(c, "ÁÉÍÓÚ"), IndexIn(c, "ÁÉÍÓÚ")), COMBINING_ACUTE>>
    ELSE IF c = "ñ" THEN <<"n", COMBINING_TILDE>>
    ELSE IF c = "Ñ" THEN <<"N", COMBINING_TILDE>>
    ELSE IF c = "ã" THEN <<"a", COMBINING_TILDE>>
    ELSE IF c = "Ã" THEN <<"A", COMBINING_TILDE>>
    ELSE IF c = TRADE_MARK THEN <<"T", "M">>
    ELSE IF c = NUMERO THEN <<"N", "o">>
    ELSE IF c = "³" THEN <<"3">>
    ELSE <<c>>

NFKD(cs) == Flatten([i \in 1..Len(cs) |-> NFKD_char(cs[i])])

chars_lower(cs) == [i \in 1..Len(cs) |-> char_lower(cs[i])]

RECURSIVE lstrip(_)
lstrip(cs) == IF Len(cs) > 0 /\ isspace(Head(cs)) THEN lstrip(Tail(cs)) ELSE cs

RECURSIVE rstrip(_)
rstrip(cs) == IF Len(cs) > 0 /\ isspace(cs[Len(cs)]) THEN rstrip(SubSeq(cs, 1, Len(cs) - 1)) ELSE cs

\* str.strip()
chars_strip(cs) == rstrip(lstrip(cs))

\* " ".join(value.split()) : whitespace runs collapsed to one space, ends trimmed
RECURSIVE collapse(_)
collapse(cs) ==
    IF Len(cs) = 0 THEN <<>>
    ELSE IF isspace(Head(cs))
         THEN IF Len(lstrip(cs)) = 0 THEN <<>> ELSE <<" ">> \o collapse(lstrip(cs))
         ELSE <<Head(cs)>> \o collapse(Tail(cs))

join_split(cs) == collapse(lstrip(cs))

\* str.startswith at position i
MatchAt(cs, i, sub) == i + Len(sub) - 1 <= Len(cs) /\ SubSeq(cs, i, i + Len(sub) - 1) = sub

\* str.replace(bad, good), leftmost non-overlapping occurrences
RECURSIVE chars_replace(_, _, _)
chars_replace(cs, bad, good) ==
    IF Len(cs) = 0 THEN <<>>
    ELSE IF MatchAt(cs, 1, bad) THEN good \o chars_replace(SubSeq(cs, Len(bad) + 1, Len(cs)), bad, good)
    ELSE <<Head(cs)>> \o chars_replace(Tail(cs), bad, good)

(***************************************************************************)
(* TextNormalizer                                                          *)
(***************************************************************************)
\* the replacements table of fix_mojibake, in dictionary order
MOJIBAKE_REPLACEMENTS == <<
    <<"Ã", "¡", "á">>, <<"Ã", "©", "é">>, <<"Ã", "U+00AD", "í">>,
    <<"Ã", "³", "ó">>, <<"Ã", "º", "ú">>, <<"Ã", "±", "ñ">>,
    <<"Ã", "U+0093", "Ó">>, <<"Ã", "U+009A", "Ú">>, <<"Ã", "U+0081", "Á">>,
    <<"Ã", "U+0089", "É">>, <<"Ã", "U+0091", "Ñ">> >>

RECURSIVE apply_replacements(_, _)
apply_replacements(cs, table) ==
    IF Len(table) = 0 THEN cs
    ELSE apply_replacements(
            chars_replace(cs, <<Head(table)[1], Head(table)[2]>>, <<Head(table)[3]>>),
            Tail(table))

fix_mojibake(value) == apply_replacements(value, MOJIBAKE_REPLACEMENTS)

\* the loop of normalize_column_name: combining marks dropped, other
\* non-alphanumerics replaced by a space
cleaned_chars(cs) ==
    LET kept == SelectSeq(cs, LAMBDA ch : ~combining(ch))
    IN  [i \in 1..Len(kept) |-> IF isalnum(kept[i]) THEN kept[i] ELSE " "]

normalize_column_name(value) ==
    LET v1 == fix_mojibake(value)
        v2 == chars_lower(chars_strip(v1))
        v3 == NFKD(v2)
        v4 == cleaned_chars(v3)
    IN  join_split(v4)

(***************************************************************************)
(* Strings (the pandas .str accessor and Python str methods)               *)
(***************************************************************************)
\* a null cell (pd.NA / NaN) of a text column, and a null timestamp
NA == "#NA"
\* the float null read_excel gives an empty cell
NaN == "#NaN"
NaT == [year |-> 0, month |-> 0]
Timestamp(y, m) == [year |-> y, month |-> m]

lower(s) == Str(chars_lower(Chars(s)))
strip(s) == Str(chars_strip(Chars(s)))

contains(s, sub) ==
    LET cs == Chars(s)
        subcs == Chars(sub)
    IN  \E i \in 1..Len(s) : MatchAt(cs, i, subcs)

\* characters in code point order, for comparing labels
CODE_ORDER == "\t #%()-.0123456789<>ABCDEFGHIJKLMNOPQRSTUVWXYZ_abcdefghijklmnopqrstuvwxyz¡©±³ºÁÃÉÍÑÓÚáãéíñóú"

RECURSIVE chars_less(_, _)
chars_less(a, b) ==
    IF Len(b) = 0 THEN FALSE
    ELSE IF Len(a) = 0 THEN TRUE
    ELSE IF Head(a) = Head(b) THEN chars_less(Tail(a), Tail(b))
    ELSE IndexIn(Head(a), CODE_ORDER) < IndexIn(Head(b), CODE_ORDER)

str_less(a, b) == chars_less(Chars(a), Chars(b))

RECURSIVE sorted(_)
sorted(S) ==
    IF S = {} THEN <<>>
    ELSE LET m == CHOOSE x \in S : \A y \in S : x = y \/ str_less(x, y)
         IN  <<m>> \o sorted(S \ {m})

RECURSIVE sorted_ints(_)
sorted_ints(S) ==
    IF S = {} THEN <<>>
    ELSE LET m == CHOOSE x \in S : \A y \in S : x <= y
         IN  <<m>> \o sorted_ints(S \ {m})

RECURSIVE sum_seq(_)
sum_seq(xs) == IF Len(xs) = 0 THEN 0 ELSE Head(xs) + sum_seq(Tail(xs))

Range(xs) == {xs[i] : i \in DOMAIN xs}

\* re.sub(r"\s+", " ", s): every whitespace run becomes one space
RECURSIVE squeeze(_)
squeeze(cs) ==
    IF Len(cs) = 0 THEN <<>>
    ELSE IF isspace(Head(cs)) THEN <<" ">> \o squeeze(lstrip(cs))
    ELSE <<Head(cs)>> \o squeeze(Tail(cs))

\* str.title(): a letter after a letter is lower-cased, any other letter upper-cased
RECURSIVE chars_title(_, _)
chars_title(cs, after_letter) ==
    IF Len(cs) = 0 THEN <<>>
    ELSE <<IF ~isalpha(Head(cs)) THEN Head(cs)
           ELSE IF after_letter THEN char_lower(Head(cs)) ELSE char_upper(Head(cs))>>
         \o chars_title(Tail(cs), isalpha(Head(cs)))

title(s) == Str(chars_title(Chars(s), FALSE))

\* the literal pieces of a pattern piece1\s*piece2\s*... matched at position i
RECURSIVE match_pieces(_, _, _)
match_pieces(cs, i, pieces) ==
    IF Len(pieces) = 0 THEN TRUE
    ELSE /\ MatchAt(cs, i, Chars(Head(pieces)))
         /\ \E k \in (i + Len(Head(pieces)))..(Len(cs) + 1) :
               /\ \A j \in (i + Len(Head(pieces)))..(k - 1) : isspace(cs[j])
               /\ match_pieces(cs, k, Tail(pieces))

\* Series.str.contains(r"piece1\s*piece2...")
contains_spaced(s, pieces) ==
    LET cs == Chars(s)
    IN  \E i \in 1..Len(s) : match_pieces(cs, i, pieces)

\* Series.astype(str) on one cell: a null becomes the text "<NA>"
astype_str(v) == IF v = NA THEN "<NA>" ELSE IF v = NaN THEN "nan" ELSE v

\* what a call returns, or the exception it raises
Ok(v) == [raised |-> "", value |-> v]
Raise(e) == [raised |-> e, value |-> <<>>]

(***************************************************************************)
(* AppConfig                                                               *)
(***************************************************************************)
MONTH_NAMES_ES == <<"Enero", "Febrero", "Marzo", "Abril", "Mayo", "Junio",
                    "Julio", "Agosto", "Septiembre", "Octubre", "Noviembre", "Diciembre">>

(***************************************************************************)
(* Record sets: a sequence of rows, each a function from column name to    *)
(* cell.  "Año" and "Mes" are the columns _add_temporal_columns derives    *)
(* from "Hora de creacion".                                                *)
(***************************************************************************)
add_temporal_columns(r) ==
    r @@ ("Año" :> r["Hora de creacion"].year) @@ ("Mes" :> r["Hora de creacion"].month)

Row(id, grupo, team, tipo, ambiente, estado, resolucion, prioridad, creado, resuelto) ==
    add_temporal_columns(
        ("ID del ticket" :> id) @@ ("Grupo" :> grupo) @@ ("Team Asignado" :> team)
        @@ ("Tipo" :> tipo) @@ ("Ambiente" :> ambiente) @@ ("Estado" :> estado)
        @@ ("Estado de resolucion" :> resolucion) @@ ("Prioridad" :> prioridad)
        @@ ("Hora de creacion" :> creado) @@ ("Hora de resolucion" :> resuelto))

column(df, col) == [i \in DOMAIN df |-> df[i][col]]

\* Series.fillna(value) on one column of the frame
fillna_column(df, col, value) ==
    [i \in DOMAIN df |-> [df[i] EXCEPT ![col] = IF @ = NA THEN value ELSE @]]

(***************************************************************************)
(* Tables: index (row labels, in order), columns (in order) and the cells. *)
(***************************************************************************)
Table(index, columns, data) == [index |-> index, columns |-> columns, data |-> data]

row_values(t, label) == [j \in DOMAIN t.columns |-> t.data[label][t.columns[j]]]

\* t.loc[label] = values : overwrites the row when the label exists,
\* appends it otherwise
set_row(t, label, values) ==
    Table(IF label \in Range(t.index) THEN t.index ELSE Append(t.index, label),
          t.columns,
          [l \in Range(t.index) \cup {label} |->
              IF l = label THEN [c \in Range(t.columns) |-> values[c]] ELSE t.data[l]])

\* t[name] = values : a column set (or appended) from a per-row value
set_column(t, name, values) ==
    Table(t.index,
          IF name \in Range(t.columns) THEN t.columns ELSE Append(t.columns, name),
          [l \in Range(t.index) |->
              [c \in Range(t.columns) \cup {name} |->
                  IF c = name THEN values[l] ELSE t.data[l][c]]])

\* DataFrame.sum(axis=1) and DataFrame.sum(axis=0)
sum_axis1(t) == [l \in Range(t.index) |-> sum_seq(row_values(t, l))]
sum_axis0(t) ==
    [c \in Range(t.columns) |-> sum_seq([i \in DOMAIN t.index |-> t.data[t.index[i]][c]])]

\* Series.count(): the non-null values
count_values(values) == Len(SelectSeq(values, LAMBDA v : v # NA))

\* Series.nunique(): the distinct non-null values
nunique(values) == Cardinality(Range(values) \ {NA})

\* DataFrame.pivot_table(index=index_col, columns="Mes", values="ID del ticket",
\*                       aggfunc="nunique", fill_value=0).sort_index()
\* rows whose month is null belong to no group
pivot_table(df, index_col) ==
    LET grouped == SelectSeq(df, LAMBDA r : r["Mes"] # NaT.month)
        labels == {grouped[i][index_col] : i \in DOMAIN grouped}
        months == {grouped[i]["Mes"] : i \in DOMAIN grouped}
        ids(l, m) == column(SelectSeq(grouped, LAMBDA r : r[index_col] = l /\ r["Mes"] = m),
                            "ID del ticket")
    IN  Table(sorted(labels), sorted_ints(months),
              [l \in labels |-> [m \in months |->
                  IF Len(ids(l, m)) = 0 THEN 0 ELSE nunique(ids(l, m))]])

\* the month columns as pivot_table returns them, unchanged
keep_columns(t, columns, fill_value) == t

\* DataFrame.reindex(columns=columns, fill_value=fill_value)
reindex_columns(t, columns, fill_value) ==
    Table(t.index, columns,
          [l \in Range(t.index) |-> [c \in Range(columns) |->
              IF c \in Range(t.columns) THEN t.data[l][c] ELSE fill_value]])

\* pivot.columns = [MONTH_NAMES_ES.get(m, str(m)) for m in pivot.columns]
rename_months(t) ==
    Table(t.index,
          [j \in DOMAIN t.columns |-> MONTH_NAMES_ES[t.columns[j]]],
          [l \in Range(t.index) |-> [name \in {MONTH_NAMES_ES[m] : m \in Range(t.columns)} |->
              t.data[l][CHOOSE m \in Range(t.columns) : MONTH_NAMES_ES[m] = name]]])

month_order == [m \in 1..Len(MONTH_NAMES_ES) |-> m]

\* TableBuilder.build_pivot_table
build_pivot_table(df, index_col, fill_missing) ==
    LET filled == fillna_column(df, index_col, fill_missing)
        pivot == pivot_table(filled, index_col)
        reindexed == rename_months(reindex_columns(pivot, month_order, 0))
        with_total == set_column(reindexed, "Total", sum_axis1(reindexed))
    IN  set_row(with_total, "Total", sum_axis0(with_total))

(***************************************************************************)
(* Status taxonomy (TicketStatusHelper, dashboard_domain)                  *)
(***************************************************************************)
\* TextNormalizer.remove_accents: the diacritics stripped, case and spacing kept
remove_accents(s) == Str(SelectSeq(NFKD(Chars(s)), LAMBDA ch : ~combining(ch)))

RESOLVED_STATES == {"resuelto", "cerrado", "solucionado", "resueltos", "resolved", "closed"}

\* TicketStatusHelper.normalized_resolved_states
normalized_resolved_states(states) ==
    {lower(strip(state)) : state \in {x \in states : strip(x) # ""}}

exact_map ==
    [k \in {"pendiente", "pending", "abierto", "open", "nuevo", "new", "en progreso",
            "in progress", "en espera", "on hold", "hold", "cancelado", "cancelada",
            "cancelled", "canceled", "reabierto", "re-opened", "reopened"} |->
        CASE k \in {"pendiente", "pending"} -> "Pendiente"
          [] k \in {"abierto", "open"} -> "Abierto"
          [] k \in {"nuevo", "new"} -> "Nuevo"
          [] k \in {"en progreso", "in progress"} -> "En progreso"
          [] k \in {"en espera", "on hold", "hold"} -> "En espera"
          [] k \in {"cancelado", "cancelada", "cancelled", "canceled"} -> "Cancelado"
          [] OTHER -> "Reabierto"]

\* estado_norm / resolution_norm of one cell: null counts as "", accents
\* removed, trimmed, lower-cased
fold_norm(raw) == lower(strip(remove_accents(IF raw = NA THEN "" ELSE raw)))

\* the title-cased fallback of one non-null cell
fallback_label(raw) == title(strip(Str(squeeze(fix_mojibake(Chars(raw))))))

\* the label normalize_estado_for_display gives one non-null, trimmed cell
estado_label(states, raw) ==
    LET estado_norm == fold_norm(raw)
        any(subs) == \E sub \in subs : contains(estado_norm, sub)
    IN  IF estado_norm \in normalized_resolved_states(states) THEN "Resuelto"
        ELSE IF estado_norm \in DOMAIN exact_map THEN exact_map[estado_norm]
        ELSE IF any({"progreso", "progress"}) THEN "En progreso"
        ELSE IF any({"espera", "waiting", "hold"}) THEN "En espera"
        ELSE IF any({"pendient", "pending"}) THEN "Pendiente"
        ELSE IF any({"cancel"}) THEN "Cancelado"
        ELSE IF any({"reabiert", "reopen"}) THEN "Reabierto"
        ELSE IF fallback_label(raw) = "" THEN NA
        ELSE fallback_label(raw)

\* Series.astype("string").str.strip()
string_strip(series) == [i \in DOMAIN series |-> IF series[i] = NA THEN NA ELSE strip(series[i])]

\* the fallback maps fix_mojibake over every cell of the trimmed series,
\* the null ones too: NA has no .replace, so a null cell raises
map_fix_mojibake_raises(series) == \E i \in DOMAIN series : series[i] = NA

\* TicketStatusHelper.normalize_estado_for_display
normalize_estado_for_display(states, estado) ==
    LET estado_raw == string_strip(estado)
    IN  IF map_fix_mojibake_raises(estado_raw) THEN Raise("AttributeError")
        ELSE Ok([i \in DOMAIN estado_raw |-> estado_label(states, estado_raw[i])])

\* the label normalize_resolution_status_for_display gives one non-null, trimmed cell
resolution_label(raw) ==
    LET resolution_norm == fold_norm(raw)
    IN  IF resolution_norm \in {"within sla", "cumplido", "en sla", "dentro de sla"} THEN "Cumplido"
        ELSE IF resolution_norm \in {"sla violated", "incumplido", "fuera de sla"} THEN "Incumplido"
        ELSE IF resolution_norm \in {"resuelto", "resolved", "solucionado", "cerrado", "closed"} THEN "Resuelto"
        ELSE IF \/ contains_spaced(resolution_norm, <<"within", "sla">>)
                \/ contains_spaced(resolution_norm, <<"dentro", "de", "sla">>) THEN "Cumplido"
        ELSE IF \/ contains(resolution_norm, "violat")
                \/ contains(resolution_norm, "incumpl")
                \/ contains_spaced(resolution_norm, <<"fuera", "de", "sla">>) THEN "Incumplido"
        ELSE IF raw = "" THEN "Sin estado de resolución"
        ELSE fallback_label(raw)

\* TicketStatusHelper.normalize_resolution_status_for_display
normalize_resolution_status_for_display(resolution) ==
    LET resolution_raw == string_strip(resolution)
    IN  IF map_fix_mojibake_raises(resolution_raw) THEN Raise("AttributeError")
        ELSE Ok([i \in DOMAIN resolution_raw |-> resolution_label(resolution_raw[i])])

PRIORITY_LABEL_MAP ==
    [k \in {"urgente", "urgent", "alta", "high", "media", "medium", "baja", "low"} |->
        CASE k \in {"urgente", "urgent"} -> "Urgente"
          [] k \in {"alta", "high"} -> "Alta"
          [] k \in {"media", "medium"} -> "Media"
          [] OTHER -> "Baja"]

\* the priority lookup without the lower-casing of the value
priority_labels_case_sensitive(priority_series) ==
    [i \in DOMAIN priority_series |->
        LET priority_norm == strip(astype_str(priority_series[i]))
        IN  IF priority_norm \in DOMAIN PRIORITY_LABEL_MAP
            THEN PRIORITY_LABEL_MAP[priority_norm] ELSE "Sin criticidad"]

\* the priority lookup by containment of a key of the map
priority_labels_by_substring(priority_series) ==
    [i \in DOMAIN priority_series |->
        LET priority_norm == lower(strip(astype_str(priority_series[i])))
            found == {k \in DOMAIN PRIORITY_LABEL_MAP : contains(priority_norm, k)}
        IN  IF found # {} THEN PRIORITY_LABEL_MAP[CHOOSE k \in found : TRUE]
            ELSE "Sin criticidad"]

\* dashboard_domain.normalize_priority_labels
normalize_priority_labels(priority_series) ==
    [i \in DOMAIN priority_series |->
        LET priority_norm == lower(strip(astype_str(priority_series[i])))
        IN  IF priority_norm \in DOMAIN PRIORITY_LABEL_MAP
            THEN PRIORITY_LABEL_MAP[priority_norm] ELSE "Sin criticidad"]

\* TicketStatusHelper.build_estado_grouped ("Estado" is a column of the frame)
build_estado_grouped(states, df, target_col) ==
    LET grouped == normalize_estado_for_display(states, column(df, "Estado"))
    IN  IF grouped.raised # "" THEN grouped
        ELSE Ok([i \in DOMAIN df |-> df[i] @@ (target_col :> grouped.value[i])])

\* resolved_estado | resolved_estado_resolucion
or_mask(resolved_estado, resolved_estado_resolucion) ==
    [i \in DOMAIN resolved_estado |-> resolved_estado[i] \/ resolved_estado_resolucion[i]]

\* TicketStatusHelper.build_resolved_mask
build_resolved_mask(states, df) ==
    LET resolved_states == normalized_resolved_states(states)
        grouped_df == build_estado_grouped(states, df, "Estado Agrupado")
        resolved_estado ==
            [i \in DOMAIN df |->
                lower(strip(astype_str(grouped_df.value[i]["Estado Agrupado"]))) = "resuelto"]
        resolved_estado_resolucion ==
            [i \in DOMAIN df |->
                lower(strip(astype_str(df[i]["Estado de resolucion"]))) \in resolved_states]
    IN  IF grouped_df.raised # "" THEN grouped_df
        ELSE Ok(or_mask(resolved_estado, resolved_estado_resolucion))

\* DashboardOrchestrator._build_estado_grouped: no accent folding, no
\* exact or substring rules, a blank becomes null
orchestrator_estado_grouped(states, estado) ==
    LET estado_series == IF estado = NA THEN NA ELSE strip(estado)
    IN  IF estado_series = NA THEN NA
        ELSE IF lower(estado_series) \in normalized_resolved_states(states) THEN "Resuelto"
        ELSE IF estado_series = "" THEN NA
        ELSE estado_series

\* DashboardOrchestrator._build_resolved_mask
orchestrator_build_resolved_mask(states, df) ==
    or_mask(
        [i \in DOMAIN df |->
            lower(strip(astype_str(orchestrator_estado_grouped(states, df[i]["Estado"])))) = "resuelto"],
        [i \in DOMAIN df |->
            lower(strip(astype_str(df[i]["Estado de resolucion"]))) \in normalized_resolved_states(states)])

\* KPICalculator._build_resolved_mask: lower-cased only, against the raw configured set
kpi_build_resolved_mask(states, df) ==
    or_mask(
        [i \in DOMAIN df |-> lower(astype_str(df[i]["Estado de resolucion"])) \in states],
        [i \in DOMAIN df |-> lower(astype_str(df[i]["Estado"])) \in states])

\* round(n / d) to the nearest integer, ties to even (n >= 0, d > 0)
round_half_even(n, d) ==
    LET q == n \div d
        r == n % d
    IN  IF 2 * r < d THEN q
        ELSE IF 2 * r > d THEN q + 1
        ELSE IF q % 2 = 0 THEN q ELSE q + 1

\* f"{tenths / 10:.1f}%"
one_decimal_percent(tenths) == ToString(tenths \div 10) \o "." \o ToString(tenths % 10) \o "%"

\* the ratio violated / (violated + within)
percent_of_total(violated, within) ==
    IF violated + within = 0 THEN "0.0%"
    ELSE one_decimal_percent(round_half_even(1000 * violated, violated + within))

\* f"{value * 100:.1f}%" for value = violated / within, "0.0%" when the
\* quotient is NA (within = 0 was replaced by NA) or the total is 0
percent_of(violated, within) ==
    IF within = 0 THEN "0.0%"
    ELSE one_decimal_percent(round_half_even(1000 * violated, within))

violated_mask(label) ==
    \/ contains(lower(label), "incumpl")
    \/ (contains(lower(label), "sla") /\ contains(lower(label), "violat"))
    \/ contains(lower(label), "no cumplido")

within_mask(label) ==
    \/ /\ contains(lower(label), "cumplido")
       /\ ~contains(lower(label), "no")
       /\ ~contains(lower(label), "in")
    \/ contains(lower(label), "within")

\* TableBuilder.add_sla_percentage_row
add_sla_percentage_row(pivot) ==
    LET month_cols == SelectSeq(pivot.columns, LAMBDA c : c # "Total")
        data_rows == SelectSeq(pivot.index, LAMBDA l : l # "Total")
        violated_rows == SelectSeq(data_rows, violated_mask)
        within_rows == SelectSeq(data_rows, within_mask)
        violated_row == [c \in Range(month_cols) |->
            IF Len(violated_rows) > 0 THEN pivot.data[violated_rows[1]][c] ELSE 0]
        within_row == [c \in Range(month_cols) |->
            IF Len(within_rows) > 0 THEN pivot.data[within_rows[1]][c] ELSE 0]
        total_violated == sum_seq([j \in DOMAIN month_cols |-> violated_row[month_cols[j]]])
        total_within == sum_seq([j \in DOMAIN month_cols |-> within_row[month_cols[j]]])
        percent_values ==
            [j \in DOMAIN month_cols |->
                percent_of(violated_row[month_cols[j]], within_row[month_cols[j]])]
            \o <<percent_of(total_violated, total_within)>>
    IN  set_row(pivot, "% Fuera de SLA",
                [c \in Range(pivot.columns) |->
                    percent_values[CHOOSE j \in DOMAIN pivot.columns : pivot.columns[j] = c]])

(***************************************************************************)
(* Reading a header and computing its key (DataValidator._build_column_map)*)
(***************************************************************************)
NoText == <<"#none">>

MaxHeaderLen == 3

HeaderAlphabet == {"a", "M", " ", "_", "ó", "Ã", "³", TRADE_MARK}

NoCall == [op |-> "none"]
NoResult == [kind |-> "none"]

InitHeader ==
    /\ header = <<>>
    /\ key = NoText
    /\ records = <<>>
    /\ call = NoCall
    /\ result = NoResult

ReadHeaderChar ==
    /\ Len(header) < MaxHeaderLen
    /\ \E c \in HeaderAlphabet : header' = Append(header, c)
    /\ key' = NoText
    /\ UNCHANGED tableVars

BuildColumnKey ==
    /\ key = NoText
    /\ key' = normalize_column_name(header)
    /\ UNCHANGED <<header, tableVars>>

NextHeader == ReadHeaderChar \/ BuildColumnKey

SpecHeader == InitHeader /\ [][NextHeader]_vars

\* C10: normalize_column_name is idempotent: normalising a key again
\* returns the same key, for every header.
C10_NormalizeColumnNameIdempotent ==
    key # NoText => normalize_column_name(key) = key


(***************************************************************************)
(* The aggregation engine on a record set                                  *)
(***************************************************************************)
MaxRows == 2

Jan2024 == Timestamp(2024, 1)
Dec2024 == Timestamp(2024, 12)

\* rows of the SLA / team pivots: two tickets, the resolution labels as
\* normalize_resolution_status_for_display leaves them, three creation dates
PivotRows ==
    {Row(id, "Acme", NA, "Incidencia", "prod", "Resuelto", label, "Alta", creado, NaT) :
        id \in {"A", "B"}, label \in {"Cumplido", "Incumplido", NA}, creado \in {Jan2024, NaT}}
    \cup {Row(NA, "Acme", NA, "Incidencia", "prod", "Resuelto", "Cumplido", "Alta", Jan2024, NaT),
          Row("B", "Acme", "Soporte N5", "Incidencia", "prod", "Resuelto", "Cumplido", "Alta", Dec2024, NaT),
          Row("A", "Acme", "Total", "Incidencia", "prod", "Resuelto", "Cumplido", "Alta", Jan2024, NaT),
          Row("B", "Acme", NA, "Incidencia", "prod", "Resuelto", "Within SLA, violated", "Alta", Jan2024, NaT)}

PivotCalls == {<<"Estado de resolucion", "Sin estado de resolución">>,
               <<"Team Asignado", "Sin team asignado">>}

\* distinct-ticket counts of a larger record set
CountSamples == {0, 2, 5, 10}

\* the pivot build_pivot_table returns for a record set with the given
\* numbers of distinct tickets in January and February
pivot_of_counts(within1, within2, violated1, violated2) ==
    LET counted == Table(<<"Cumplido", "Incumplido">>, <<1, 2>>,
                         ("Cumplido" :> ((1 :> within1) @@ (2 :> within2)))
                         @@ ("Incumplido" :> ((1 :> violated1) @@ (2 :> violated2))))
        reindexed == rename_months(reindex_columns(counted, month_order, 0))
        with_total == set_column(reindexed, "Total", sum_axis1(reindexed))
    IN  set_row(with_total, "Total", sum_axis0(with_total))

SamplePivots ==
    {pivot_of_counts(w1, w2, v1, v2) : w1 \in CountSamples, w2 \in {0, 5}, v1 \in CountSamples, v2 \in {0, 5}}

\* the dashboard starts without records; the table at hand is none, or the
\* pivot an earlier render built over a larger record set
InitPivot ==
    /\ header = <<>>
    /\ key = NoText
    /\ records = <<>>
    /\ \/ call = NoCall /\ result = NoResult
       \/ \E p \in SamplePivots :
             /\ call = [op |-> "pivot_of_counts"]
             /\ result = [kind |-> "table", table |-> p]

\* a row reaches the record set (a new upload re-runs the dashboard)
LoadRow(rows) ==
    /\ Len(records) < MaxRows
    /\ \E r \in rows : records' = Append(records, r)
    /\ call' = NoCall
    /\ result' = NoResult
    /\ UNCHANGED headerVars

LoadPivotRow == LoadRow(PivotRows)

BuildPivotTable ==
    /\ call = NoCall
    /\ \E c \in PivotCalls :
          /\ call' = [op |-> "build_pivot_table", index_col |-> c[1], fill_missing |-> c[2]]
          /\ result' = [kind |-> "table", table |-> build_pivot_table(records, c[1], c[2])]
    /\ UNCHANGED <<records, headerVars>>

\* render_resolucion_section: the percentage row is added to the pivot just built
AddSlaPercentageRow ==
    /\ call.op \in {"build_pivot_table", "pivot_of_counts"}
    /\ call' = [op |-> "add_sla_percentage_row", pivot |-> result.table]
    /\ result' = [kind |-> "table", table |-> add_sla_percentage_row(result.table)]
    /\ UNCHANGED <<records, headerVars>>

NextPivot == LoadPivotRow \/ BuildPivotTable \/ AddSlaPercentageRow

SpecPivot == InitPivot /\ [][NextPivot]_vars

\* C26: in add_sla_percentage_row no row label is selected both as the
\* compliant row and as the violated row: for every label of the pivot the
\* compliant mask and the violated mask are disjoint.
C26_SlaMasksDisjoint ==
    call.op = "add_sla_percentage_row" =>
        \A i \in DOMAIN call.pivot.index :
            call.pivot.index[i] # "Total" =>
                ~(violated_mask(call.pivot.index[i]) /\ within_mask(call.pivot.index[i]))

\* C1: a duplicate of an existing row (same ticket id, category and month)
\* changes no cell of the pivot: month cells, Total column and Total row
\* count distinct ticket ids, not rows.
C1_DuplicateRowLeavesPivotUnchanged ==
    call.op = "build_pivot_table" =>
        \A i \in DOMAIN records :
            build_pivot_table(Append(records, records[i]), call.index_col, call.fill_missing)
                = result.table

\* a pivot built over a record set that already holds the same row twice,
\* whose cell counts the ticket once
C1_Witness ==
    /\ call.op = "build_pivot_table"
    /\ call.index_col = "Estado de resolucion"
    /\ Len(records) = 2
    /\ records[1] = records[2]
    /\ records[1]["ID del ticket"] = "A"
    /\ records[1]["Estado de resolucion"] = "Cumplido"
    /\ records[1]["Mes"] = 1
    /\ result.table.data["Cumplido"]["Enero"] = 1
    /\ result.table.data["Total"]["Total"] = 1

\* C2: for every record set, also one with zero rows, the pivot's columns
\* are the twelve month names Enero..Diciembre in order, then Total, and in
\* every category row Total is the sum of the twelve month cells.
C2_TwelveMonthsAndRowTotals ==
    call.op = "build_pivot_table" =>
        /\ result.table.columns = MONTH_NAMES_ES \o <<"Total">>
        /\ \A l \in Range(result.table.index) :
              result.table.data[l]["Total"]
                  = sum_seq([m \in DOMAIN MONTH_NAMES_ES |-> result.table.data[l][MONTH_NAMES_ES[m]]])

\* a pivot over a record set with tickets in January and December only
C2_Witness ==
    /\ call.op = "build_pivot_table"
    /\ call.index_col = "Estado de resolucion"
    /\ {records[i]["Mes"] : i \in DOMAIN records} = {1, 12}
    /\ Len(result.table.columns) = 13
    /\ result.table.data["Cumplido"]["Total"] = 2
    /\ result.table.data["Cumplido"]["Febrero"] = 0

\* the pivot of a record set with zero rows
C2_WitnessZeroRows ==
    /\ call.op = "build_pivot_table"
    /\ records = <<>>
    /\ result.table.index = <<"Total">>

\* the category labels of the records that have a month, nulls filled
CategoryLabels(df, index_col, fill_missing) ==
    {IF df[i][index_col] = NA THEN fill_missing ELSE df[i][index_col] :
        i \in {j \in DOMAIN df : df[j]["Mes"] # NaT.month}}

\* C14: the pivot's last row is 'Total', above it is one row per category
\* label of the data; the Total row holds per month column the sum of the
\* category rows and its Total cell is the sum of all category-by-month cells.
C14_TotalRowIsColumnSums ==
    call.op = "build_pivot_table" =>
        LET t == result.table
            categories == SubSeq(t.index, 1, Len(t.index) - 1)
            months == Range(MONTH_NAMES_ES)
            column_sum(c) == sum_seq([i \in DOMAIN categories |-> t.data[categories[i]][c]])
        IN  /\ t.index[Len(t.index)] = "Total"
            /\ Range(categories) = CategoryLabels(records, call.index_col, call.fill_missing)
            /\ Len(categories) = Cardinality(Range(categories))
            /\ \A c \in months : t.data["Total"][c] = column_sum(c)
            /\ t.data["Total"]["Total"]
                  = sum_seq([m \in DOMAIN MONTH_NAMES_ES |-> column_sum(MONTH_NAMES_ES[m])])

\* the cell "x.y%" nearest to 100 * violated / within, "0.0%" for within = 0
IsPercentOf(cell, violated, within) ==
    IF within = 0 THEN cell = "0.0%"
    ELSE \E tenths \in {(1000 * violated) \div within, (1000 * violated) \div within + 1} :
            /\ cell = ToString(tenths \div 10) \o "." \o ToString(tenths % 10) \o "%"
            /\ 2 * (1000 * violated - tenths * within) <= within
            /\ 2 * (tenths * within - 1000 * violated) <= within

RowOrZeros(pivot, label, c) == IF label \in Range(pivot.index) THEN pivot.data[label][c] ELSE 0

\* the violated row of the pivot, if any, is 'Incumplido' and its compliant
\* row, if any, is 'Cumplido'
CanonicalSlaLabels(pivot) ==
    \A l \in Range(pivot.index) \ {"Total"} :
        /\ violated_mask(l) => l = "Incumplido"
        /\ within_mask(l) => l = "Cumplido"

\* C3: add_sla_percentage_row appends one row; per month its cell is
\* Incumplido / Cumplido as a one-decimal percentage, "0.0%" when Cumplido
\* is zero; the trailing cell is the same ratio over the sums of the month
\* columns (the violated and the compliant row being the rows of these two
\* labels). Cumplido [10, 0] and Incumplido [2, 5] give 20.0% and 0.0%.
C3_SlaPercentageRow ==
    call.op = "add_sla_percentage_row" =>
        LET p == call.pivot
            t == result.table
            months == Range(MONTH_NAMES_ES)
            total(label) == sum_seq([m \in DOMAIN MONTH_NAMES_ES |-> RowOrZeros(p, label, MONTH_NAMES_ES[m])])
        IN  /\ t.index = Append(p.index, "% Fuera de SLA")
            /\ t.columns = p.columns
            /\ \A l \in Range(p.index) : t.data[l] = p.data[l]
            /\ CanonicalSlaLabels(p) =>
                  /\ \A c \in months :
                        IsPercentOf(t.data["% Fuera de SLA"][c],
                                    RowOrZeros(p, "Incumplido", c), RowOrZeros(p, "Cumplido", c))
                  /\ IsPercentOf(t.data["% Fuera de SLA"]["Total"],
                                 total("Incumplido"), total("Cumplido"))
            /\ (p = pivot_of_counts(10, 0, 2, 5) =>
                  /\ t.data["% Fuera de SLA"]["Enero"] = "20.0%"
                  /\ t.data["% Fuera de SLA"]["Febrero"] = "0.0%")

\* the percentage row of the pivot Cumplido [10, 0], Incumplido [2, 5]
C3_Witness ==
    /\ call.op = "add_sla_percentage_row"
    /\ call.pivot = pivot_of_counts(10, 0, 2, 5)
    /\ result.table.data["% Fuera de SLA"]["Enero"] = "20.0%"
    /\ result.table.data["% Fuera de SLA"]["Febrero"] = "0.0%"
    /\ result.table.data["% Fuera de SLA"]["Total"] = "70.0%"

(***************************************************************************)
(* Status, resolution and priority labels of a record set                  *)
(***************************************************************************)
ESTADO_LABELS == {"Resuelto", "Pendiente", "Abierto", "Nuevo", "En progreso",
                  "En espera", "Cancelado", "Reabierto"}

RESOLUTION_LABELS == {"Cumplido", "Incumplido", "Resuelto", "Sin estado de resolución"}

PRIORITY_LABELS == {"Urgente", "Alta", "Media", "Baja", "Sin criticidad"}

\* one ticket of the status sections
StatusRow(estado, resolucion, prioridad) ==
    Row("A", "Acme", "Soporte N5", "Incidencia", "prod", estado, resolucion, prioridad, Jan2024, Jan2024)

\* rows carrying every canonical label, raw source values and nulls
StatusRows ==
    {StatusRow("Resuelto", "Cumplido", "Urgente"),
     StatusRow("Pendiente", "Incumplido", "Alta"),
     StatusRow("Abierto", "Resuelto", "Media"),
     StatusRow("Nuevo", "Sin estado de resolución", "Baja"),
     StatusRow("En progreso", "Within SLA", "Sin criticidad"),
     StatusRow("En espera", "closed", "URGENT"),
     StatusRow("Cancelado", "Cerrádo", NA),
     StatusRow("Reabierto", NA, "High"),
     StatusRow("Cerrado ", "SLA Violated", "Muy alta"),
     StatusRow("on  hold", "Fuera de  SLA", " low "),
     StatusRow(NA, "Cumplido", ""),
     StatusRow("Pendiente de progreso", "no aplica", "medium"),
     StatusRow(" ", " ", "Baja")}

\* the configured RESOLVED_STATES: the default and a deployment's own
ResolvedStatesConfigs == {RESOLVED_STATES, {"closed"}}

InitStatus ==
    /\ header = <<>>
    /\ key = NoText
    /\ records = <<>>
    /\ call = NoCall
    /\ result = NoResult

LoadStatusRow == LoadRow(StatusRows)

NormalizeEstadoForDisplay ==
    /\ records # <<>>
    /\ call = NoCall
    /\ \E states \in ResolvedStatesConfigs :
          /\ call' = [op |-> "normalize_estado_for_display", states |-> states]
          /\ result' = [kind |-> "series",
                        outcome |-> normalize_estado_for_display(states, column(records, "Estado"))]
    /\ UNCHANGED <<header, key, records>>

NormalizeResolutionStatusForDisplay ==
    /\ records # <<>>
    /\ call = NoCall
    /\ call' = [op |-> "normalize_resolution_status_for_display"]
    /\ result' = [kind |-> "series",
                  outcome |-> normalize_resolution_status_for_display(
                                  column(records, "Estado de resolucion"))]
    /\ UNCHANGED <<header, key, records>>

NormalizePriorityLabels ==
    /\ records # <<>>
    /\ call = NoCall
    /\ call' = [op |-> "normalize_priority_labels"]
    /\ result' = [kind |-> "series",
                  outcome |-> Ok(normalize_priority_labels(column(records, "Prioridad")))]
    /\ UNCHANGED <<header, key, records>>

BuildResolvedMask ==
    /\ records # <<>>
    /\ call = NoCall
    /\ \E states \in ResolvedStatesConfigs :
          /\ call' = [op |-> "build_resolved_mask", states |-> states]
          /\ result' = [kind |-> "mask", outcome |-> build_resolved_mask(states, records)]
    /\ UNCHANGED <<header, key, records>>

OrchestratorBuildResolvedMask ==
    /\ records # <<>>
    /\ call = NoCall
    /\ \E states \in ResolvedStatesConfigs :
          /\ call' = [op |-> "_build_resolved_mask", states |-> states]
          /\ result' = [kind |-> "mask",
                        outcome |-> Ok(orchestrator_build_resolved_mask(states, records))]
    /\ UNCHANGED <<header, key, records>>

KpiBuildResolvedMask ==
    /\ records # <<>>
    /\ call = NoCall
    /\ \E states \in ResolvedStatesConfigs :
          /\ call' = [op |-> "KPICalculator._build_resolved_mask", states |-> states]
          /\ result' = [kind |-> "mask", outcome |-> Ok(kpi_build_resolved_mask(states, records))]
    /\ UNCHANGED <<header, key, records>>

NextStatus ==
    \/ LoadStatusRow
    \/ NormalizeEstadoForDisplay
    \/ NormalizeResolutionStatusForDisplay
    \/ NormalizePriorityLabels
    \/ BuildResolvedMask
    \/ OrchestratorBuildResolvedMask
    \/ KpiBuildResolvedMask

SpecStatus == InitStatus /\ [][NextStatus]_vars

\* a field folds to a resolved synonym: accent-folded, trimmed and
\* lower-cased it is in the configured set
FoldsToResolved(states, raw) == fold_norm(raw) \in normalized_resolved_states(states)

\* C4: for every row and every configured resolved-state set,
\* build_resolved_mask answers, and is true for exactly the rows whose status
\* or whose resolution status folds to a resolved synonym.
C4_ResolvedMaskIsOrOfFoldedSignals ==
    call.op = "build_resolved_mask" =>
        /\ result.outcome.raised = ""
        /\ \A i \in DOMAIN records :
              result.outcome.value[i] <=>
                  \/ FoldsToResolved(call.states, records[i]["Estado"])
                  \/ FoldsToResolved(call.states, records[i]["Estado de resolucion"])

\* C8: under the default configuration normalize_estado_for_display returns
\* a series of canonical status labels unchanged, and normalize_priority_labels
\* returns every canonical priority label unchanged.
C8_CanonicalStatusAndPriorityUnchanged ==
    /\ (/\ call.op = "normalize_estado_for_display"
        /\ call.states = RESOLVED_STATES
        /\ Range(column(records, "Estado")) \subseteq ESTADO_LABELS)
       => result.outcome = Ok(column(records, "Estado"))
    /\ call.op = "normalize_priority_labels" =>
          \A i \in DOMAIN records :
              records[i]["Prioridad"] \in PRIORITY_LABELS
                  => result.outcome.value[i] = records[i]["Prioridad"]

C8_Witness ==
    /\ call.op = "normalize_estado_for_display"
    /\ call.states = RESOLVED_STATES
    /\ column(records, "Estado") = <<"En espera", "Resuelto">>
    /\ result.outcome = Ok(<<"En espera", "Resuelto">>)

C8_WitnessPriority ==
    /\ call.op = "normalize_priority_labels"
    /\ column(records, "Prioridad") = <<"Sin criticidad", "Urgente">>
    /\ result.outcome = Ok(<<"Sin criticidad", "Urgente">>)

\* C9: normalize_resolution_status_for_display returns each of Cumplido,
\* Incumplido, Resuelto and 'Sin estado de resolución' unchanged.
C9_CanonicalResolutionUnchanged ==
    (/\ call.op = "normalize_resolution_status_for_display"
     /\ result.outcome.raised = "")
    => \A i \in DOMAIN records :
          records[i]["Estado de resolucion"] \in RESOLUTION_LABELS
              => result.outcome.value[i] = records[i]["Estado de resolucion"]

\* the rules of the status cascade on a folded status, in their fixed order
StatusRules(states, folded) ==
    << <<folded \in {lower(strip(x)) : x \in states}, "Resuelto">>,
       <<folded \in {"pendiente", "pending"}, "Pendiente">>,
       <<folded \in {"abierto", "open"}, "Abierto">>,
       <<folded \in {"nuevo", "new"}, "Nuevo">>,
       <<folded \in {"en progreso", "in progress"}, "En progreso">>,
       <<folded \in {"en espera", "on hold", "hold"}, "En espera">>,
       <<folded \in {"cancelado", "cancelada", "cancelled", "canceled"}, "Cancelado">>,
       <<folded \in {"reabierto", "re-opened", "reopened"}, "Reabierto">>,
       <<contains(folded, "progreso") \/ contains(folded, "progress"), "En progreso">>,
       <<contains(folded, "espera") \/ contains(folded, "waiting") \/ contains(folded, "hold"),
         "En espera">>,
       <<contains(folded, "pendient") \/ contains(folded, "pending"), "Pendiente">>,
       <<contains(folded, "cancel"), "Cancelado">>,
       <<contains(folded, "reabiert") \/ contains(folded, "reopen"), "Reabierto">> >>

\* the label of the first rule that matches, the title-cased original when
\* none does, null for a null or blank status
FirstMatch(states, raw) ==
    IF raw = NA \/ strip(raw) = "" THEN NA
    ELSE LET rules == StatusRules(states, fold_norm(raw))
             matching == {k \in DOMAIN rules : rules[k][1]}
         IN  IF matching = {} THEN fallback_label(raw)
             ELSE rules[CHOOSE k \in matching : \A j \in matching : k <= j][2]

\* C16: every status gets the label of the first rule of the cascade that
\* matches its folded text (resolved set, exact table, the substring rules
\* in their order), the title-cased original when none matches, and a null
\* or blank status stays null.
C16_StatusFirstMatchNullStaysNull ==
    call.op = "normalize_estado_for_display" =>
        /\ result.outcome.raised = ""
        /\ \A i \in DOMAIN records :
              result.outcome.value[i] = FirstMatch(call.states, records[i]["Estado"])

\* C17: normalize_resolution_status_for_display answers for every series
\* and never with a null: 'Sin estado de resolución' for a null or blank
\* status, Cumplido / Incumplido / Resuelto for a status in the synonym set
\* of that label, the title-cased text for any other status.
C17_ResolutionLabelTotal ==
    call.op = "normalize_resolution_status_for_display" =>
        /\ result.outcome.raised = ""
        /\ \A i \in DOMAIN records :
              LET raw == records[i]["Estado de resolucion"]
                  folded == fold_norm(raw)
                  label == result.outcome.value[i]
              IN  /\ label # NA
                  /\ label =
                        IF raw = NA \/ strip(raw) = "" THEN "Sin estado de resolución"
                        ELSE IF folded \in {"within sla", "cumplido", "en sla", "dentro de sla"}
                             THEN "Cumplido"
                        ELSE IF folded \in {"sla violated", "incumplido", "fuera de sla"}
                             THEN "Incumplido"
                        ELSE IF folded \in {"resuelto", "resolved", "solucionado", "cerrado",
                                            "closed"}
                             THEN "Resuelto"
                        ELSE fallback_label(raw)

\* C18: a priority whose trimmed, lower-cased text is urgente/urgent,
\* alta/high, media/medium or baja/low gets Urgente, Alta, Media or Baja;
\* every other value, a null, a blank and a text that only contains one of
\* the words too, gets 'Sin criticidad'; no label is null.
C18_PriorityExactMatchOnly ==
    call.op = "normalize_priority_labels" =>
        /\ result.outcome.raised = ""
        /\ \A i \in DOMAIN records :
              LET raw == records[i]["Prioridad"]
                  text == IF raw = NA THEN NA ELSE lower(strip(raw))
                  label == result.outcome.value[i]
              IN  /\ label # NA
                  /\ label = CASE text \in {"urgente", "urgent"} -> "Urgente"
                               [] text \in {"alta", "high"} -> "Alta"
                               [] text \in {"media", "medium"} -> "Media"
                               [] text \in {"baja", "low"} -> "Baja"
                               [] OTHER -> "Sin criticidad"

\* a priority that contains a word of the table and one that is a word of
\* it once trimmed
C18_Witness ==
    /\ call.op = "normalize_priority_labels"
    /\ column(records, "Prioridad") = <<"Muy alta", " low ">>
    /\ result.outcome = Ok(<<"Sin criticidad", "Baja">>)

\* a null and a blank priority
C18_WitnessNull ==
    /\ call.op = "normalize_priority_labels"
    /\ column(records, "Prioridad") = <<NA, "">>
    /\ result.outcome = Ok(<<"Sin criticidad", "Sin criticidad">>)

(***************************************************************************)
(* DataFilter                                                              *)
(***************************************************************************)
\* argument values: None, an int, a str, a list
None == [type |-> "NoneType"]
IntValue(n) == [type |-> "int", value |-> n]
StrValue(s) == [type |-> "str", value |-> <<s>>]
List(xs) == [type |-> "list", value |-> xs]

\* Series.isin(values): a null cell is in no list of texts
isin(v, values) == v # NA /\ v \in Range(values)

filter_by_year(df, year) ==
    IF year = None THEN df
    ELSE SelectSeq(df, LAMBDA r : r["Año"] = year.value)

\* filter_by_client taking every text, 'Todos' and '' too, as a client name
filter_by_client_literal(df, client) ==
    IF client.type = "list"
    THEN IF client.value = <<>> THEN df
         ELSE SelectSeq(df, LAMBDA r : isin(r["Grupo"], client.value))
    ELSE IF client = None THEN df
    ELSE SelectSeq(df, LAMBDA r : r["Grupo"] # NA /\ r["Grupo"] = client.value[1])

filter_by_client(df, client) ==
    IF client.type = "list"
    THEN IF client.value = <<>> THEN df
         ELSE SelectSeq(df, LAMBDA r : isin(r["Grupo"], client.value))
    ELSE IF client = None \/ client = StrValue("") \/ client = StrValue("Todos") THEN df
    ELSE SelectSeq(df, LAMBDA r : r["Grupo"] # NA /\ r["Grupo"] = client.value[1])

\* filter_by_team keeping the rows without a team too
filter_by_team_or_unassigned(df, team) ==
    IF team.value = <<>> THEN df
    ELSE SelectSeq(df, LAMBDA r : r["Team Asignado"] = NA \/ isin(r["Team Asignado"], team.value))

filter_by_team(df, team) ==
    IF team.value = <<>> THEN df
    ELSE SelectSeq(df, LAMBDA r : isin(r["Team Asignado"], team.value))

filter_by_types(df, types) ==
    IF types.value = <<>> THEN df
    ELSE SelectSeq(df, LAMBDA r : isin(r["Tipo"], types.value))

PROD_ENVIRONMENTS == {"prod (cliente)", "produccion", "produccion ", "prod"}

\* normalize_environment without the folding of the accented o
normalize_environment_unfolded(value) == lower(strip(astype_str(value)))

\* TextNormalizer.normalize_environment
normalize_environment(value) ==
    Str(chars_replace(Chars(lower(strip(astype_str(value)))), <<"ó">>, <<"o">>))

filter_production_environment(df) ==
    SelectSeq(df, LAMBDA r : normalize_environment(r["Ambiente"]) \in PROD_ENVIRONMENTS)

\* the resolution-year filter reading the creation year instead
filter_resolved_by_creation_year(df, year) ==
    IF year = None THEN df
    ELSE SelectSeq(df, LAMBDA r : r["Año"] = year.value)

filter_resolved_by_year(df, year) ==
    IF year = None THEN df
    ELSE SelectSeq(df, LAMBDA r : r["Hora de resolucion"] # NaT
                                     /\ r["Hora de resolucion"].year = year.value)

\* DataFilter.filter_by_criticidad: the list-filter pattern over "Prioridad"
filter_by_criticidad(df, priorities) ==
    IF priorities.value = <<>> THEN df
    ELSE SelectSeq(df, LAMBDA r : isin(r["Prioridad"], priorities.value))

\* the chain of render_dashboard without its criticidad step
base_filter_chain_without_criticidad(df, selected_client, selected_team, selected_criticidad) ==
    filter_by_types(
        filter_by_team(filter_by_client(df, selected_client), selected_team),
        List(<<"Consulta de informacion", "Incidencia">>))

\* base_filtered of DashboardOrchestrator.render_dashboard
base_filter_chain(df, selected_client, selected_team, selected_criticidad) ==
    filter_by_types(
        filter_by_criticidad(
            filter_by_team(filter_by_client(df, selected_client), selected_team),
            selected_criticidad),
        List(<<"Consulta de informacion", "Incidencia">>))

\* the standard columns the rows of the model carry
FRAME_COLUMNS == <<"ID del ticket", "Grupo", "Team Asignado", "Tipo", "Ambiente", "Estado",
                   "Estado de resolucion", "Prioridad", "Hora de creacion", "Hora de resolucion">>

\* core_columns of DataValidator._check_missing_core_columns
CORE_COLUMNS == <<"ID del ticket", "Estado", "Hora de creacion", "Estado de resolucion",
                  "Modulo", "Ambiente", "Grupo", "Tipo">>

\* DataValidator._check_missing_core_columns: the warning lists the missing
\* core columns; nothing is raised and the table is returned
missing_core(columns) == SelectSeq(CORE_COLUMNS, LAMBDA col : col \notin Range(columns))

\* DataPreprocessor._add_temporal_columns: "Año" and "Mes" are added only
\* when "Hora de creacion" is a column
preprocess_columns(columns) ==
    IF "Hora de creacion" \in Range(columns) THEN Range(columns) \cup {"Año", "Mes"}
    ELSE Range(columns)

\* the early return of a filter on a missing column, else the filter
filter_in(columns, op, df, arg) ==
    CASE op = "filter_by_year" ->
            IF "Año" \notin columns THEN df ELSE filter_by_year(df, arg)
      [] op = "filter_by_client" ->
            IF "Grupo" \notin columns THEN df ELSE filter_by_client(df, arg)
      [] op = "filter_by_team" ->
            IF "Team Asignado" \notin columns THEN df ELSE filter_by_team(df, arg)
      [] op = "filter_by_types" ->
            IF "Tipo" \notin columns THEN df ELSE filter_by_types(df, arg)
      [] op = "filter_by_criticidad" ->
            IF "Prioridad" \notin columns THEN df ELSE filter_by_criticidad(df, arg)
      [] op = "filter_production_environment" ->
            IF "Ambiente" \notin columns THEN df ELSE filter_production_environment(df)
      [] op = "filter_resolved_by_year" ->
            IF "Hora de resolucion" \notin columns THEN df ELSE filter_resolved_by_year(df, arg)

Dec2023 == Timestamp(2023, 12)

\* tickets of two clients, two teams, two types, created and resolved
\* across the turn of the year
FilterRows ==
    {Row("A", "Acme", "Soporte N5", "Incidencia", "Producción", "Resuelto", "Within SLA", "Alta", Dec2023, Jan2024),
     Row("B", "Acme", "Dev", "Consulta", "prod", "Abierto", NA, "Media", Jan2024, NaT),
     Row("C", "Beta", NA, "Incidencia", "QA", "Cerrado", "SLA Violated", "Baja", Jan2024, Jan2024),
     Row("D", NA, "Dev", NA, NA, NA, NA, NA, NaT, Dec2023),
     Row("E", "Todos", "Soporte N5", "Consulta", "PROD ", "Resuelto", "Within SLA", "Alta", Dec2024, Dec2024),
     Row("F", "Beta", "Dev", "Incidencia", "", "Pendiente", NA, "Urgente", Jan2024, NaT)}

YearArgs == {None, IntValue(2023), IntValue(2024)}
ClientArgs == {List(<<>>), None, StrValue(""), StrValue("Todos"), StrValue("Acme"),
               List(<<"Acme", "Beta">>)}
TeamArgs == {List(<<>>), List(<<"Dev">>)}
TypesArgs == {List(<<>>), List(<<"Incidencia">>), List(<<"Incidencia", "Consulta">>)}
CriticidadArgs == {List(<<>>), List(<<"Alta">>), List(<<"Alta", "Baja">>)}

\* the selections of the multiselect widgets of _render_filters
SelectedClients == {List(<<>>), List(<<"Acme", "Beta">>)}

\* the filters two of which are applied in succession, each with an
\* argument that filters
PairOps == <<"filter_by_year", "filter_by_client", "filter_by_team", "filter_by_types",
             "filter_production_environment", "filter_resolved_by_year">>

PairArgs(op) ==
    CASE op = "filter_by_year" -> {IntValue(2024)}
      [] op = "filter_by_client" -> {StrValue("Acme"), List(<<"Acme", "Beta">>)}
      [] op = "filter_by_team" -> {List(<<"Dev">>)}
      [] op = "filter_by_types" -> {List(<<"Incidencia">>)}
      [] op = "filter_production_environment" -> {None}
      [] op = "filter_resolved_by_year" -> {IntValue(2024)}

\* the columns of a preprocessed table none of whose columns is missing
ALL_COLUMNS == preprocess_columns(FRAME_COLUMNS)

InitFilter ==
    /\ header = <<>>
    /\ key = NoText
    /\ records = <<>>
    /\ call = NoCall
    /\ result = NoResult

LoadFilterRow == LoadRow(FilterRows)

Frame(df) == [kind |-> "frame", frame |-> df]

FilterByYear ==
    /\ call = NoCall
    /\ \E arg \in YearArgs :
          /\ call' = [op |-> "filter_by_year", arg |-> arg]
          /\ result' = Frame(filter_by_year(records, arg))
    /\ UNCHANGED <<header, key, records>>

FilterByClient ==
    /\ call = NoCall
    /\ \E arg \in ClientArgs :
          /\ call' = [op |-> "filter_by_client", arg |-> arg]
          /\ result' = Frame(filter_by_client(records, arg))
    /\ UNCHANGED <<header, key, records>>

FilterByTeam ==
    /\ call = NoCall
    /\ \E arg \in TeamArgs :
          /\ call' = [op |-> "filter_by_team", arg |-> arg]
          /\ result' = Frame(filter_by_team(records, arg))
    /\ UNCHANGED <<header, key, records>>

FilterByTypes ==
    /\ call = NoCall
    /\ \E arg \in TypesArgs :
          /\ call' = [op |-> "filter_by_types", arg |-> arg]
          /\ result' = Frame(filter_by_types(records, arg))
    /\ UNCHANGED <<header, key, records>>

FilterProductionEnvironment ==
    /\ call = NoCall
    /\ \E arg \in {None} :
          /\ call' = [op |-> "filter_production_environment", arg |-> arg]
          /\ result' = Frame(filter_production_environment(records))
    /\ UNCHANGED <<header, key, records>>

FilterResolvedByYear ==
    /\ call = NoCall
    /\ \E arg \in YearArgs :
          /\ call' = [op |-> "filter_resolved_by_year", arg |-> arg]
          /\ result' = Frame(filter_resolved_by_year(records, arg))
    /\ UNCHANGED <<header, key, records>>

\* DataFilter.filter_by_criticidad on the loaded records
FilterByCriticidad ==
    /\ call = NoCall
    /\ \E arg \in CriticidadArgs :
          /\ call' = [op |-> "filter_by_criticidad", arg |-> arg]
          /\ result' = Frame(filter_by_criticidad(records, arg))
    /\ UNCHANGED <<header, key, records>>

\* base_filtered of render_dashboard: client, team, criticidad, types
BaseFilterChain ==
    /\ call = NoCall
    /\ \E selected_client \in SelectedClients, selected_team \in TeamArgs,
          selected_criticidad \in CriticidadArgs :
          /\ call' = [op |-> "base_filter_chain", client |-> selected_client,
                       team |-> selected_team, criticidad |-> selected_criticidad]
          /\ result' = Frame(base_filter_chain(records, selected_client, selected_team,
                                                selected_criticidad))
    /\ UNCHANGED <<header, key, records>>

\* two filters applied in succession, as the sections compose them
FilterPair ==
    /\ call = NoCall
    /\ \E i \in DOMAIN PairOps, j \in DOMAIN PairOps :
          \E first \in PairArgs(PairOps[i]), second \in PairArgs(PairOps[j]) :
             /\ call' = [op |-> "filter_pair", first_op |-> PairOps[i], first_arg |-> first,
                          second_op |-> PairOps[j], second_arg |-> second]
             /\ result' = Frame(filter_in(ALL_COLUMNS, PairOps[j],
                                           filter_in(ALL_COLUMNS, PairOps[i], records, first),
                                           second))
    /\ UNCHANGED <<header, key, records>>

NextFilter ==
    \/ LoadFilterRow
    \/ FilterByCriticidad
    \/ BaseFilterChain
    \/ FilterPair
    \/ FilterByYear
    \/ FilterByClient
    \/ FilterByTeam
    \/ FilterByTypes
    \/ FilterProductionEnvironment
    \/ FilterResolvedByYear

SpecFilter == InitFilter /\ [][NextFilter]_vars

\* the argument that means "no filter" for each filter
EmptyArgument(op, arg) ==
    \/ op \in {"filter_by_year", "filter_resolved_by_year"} /\ arg = None
    \/ op = "filter_by_client" /\ arg \in {List(<<>>), None, StrValue(""), StrValue("Todos")}
    \/ op \in {"filter_by_team", "filter_by_types"} /\ arg = List(<<>>)

\* C5: filter_by_year and filter_resolved_by_year with None, filter_by_client
\* with [], None, '' or 'Todos', filter_by_team and filter_by_types with []
\* return the record set they were given: same rows, same order.
C5_FiltersInertOnEmptyArgument ==
    (call.op \in {"filter_by_year", "filter_by_client", "filter_by_team", "filter_by_types",
                  "filter_resolved_by_year"}
     /\ EmptyArgument(call.op, call.arg))
    => result = Frame(records)

\* 'Todos' given to filter_by_client over records none of whose rows would
\* pass a year or resolution-year filter and one of whose clients is not 'Todos'
C5_Witness ==
    /\ call = [op |-> "filter_by_client", arg |-> StrValue("Todos")]
    /\ Len(records) = 2
    /\ records[1]["Grupo"] = NA
    /\ records[2]["Grupo"] = "Acme"
    /\ result = Frame(records)

\* None given to filter_by_year over records with an unparseable creation date
C5_WitnessYear ==
    /\ call = [op |-> "filter_by_year", arg |-> None]
    /\ \E i \in DOMAIN records : records[i]["Hora de creacion"] = NaT
    /\ result = Frame(records)

\* a row's text cell is one of the texts of a list
InList(r, col, texts) == r[col] # NA /\ \E i \in DOMAIN texts : texts[i] = r[col]

\* C12: filter_by_criticidad keeps exactly the rows whose priority is in the
\* given list and returns the records unchanged on an empty list, so that
\* the chain client, team, criticidad, types runs to completion and yields
\* the rows that pass each of its four steps.
C12_CriticidadFilterAndChain ==
    /\ call.op = "filter_by_criticidad" =>
          result = Frame(IF call.arg.value = <<>> THEN records
                         ELSE SelectSeq(records,
                                 LAMBDA r : InList(r, "Prioridad", call.arg.value)))
    /\ call.op = "base_filter_chain" =>
          result = Frame(SelectSeq(records, LAMBDA r :
                      /\ call.client.value = <<>> \/ InList(r, "Grupo", call.client.value)
                      /\ call.team.value = <<>> \/ InList(r, "Team Asignado", call.team.value)
                      /\ call.criticidad.value = <<>>
                            \/ InList(r, "Prioridad", call.criticidad.value)
                      /\ InList(r, "Tipo", <<"Consulta de informacion", "Incidencia">>)))

\* the chain with a criticidad selection that drops an incident of the
\* selected clients and keeps another
C12_Witness ==
    /\ call.op = "base_filter_chain"
    /\ call.criticidad = List(<<"Alta">>)
    /\ call.client = List(<<"Acme", "Beta">>)
    /\ Len(records) = 2
    /\ records[1]["Prioridad"] = "Urgente" /\ records[1]["Tipo"] = "Incidencia"
    /\ result = Frame(<<records[2]>>)

\* the environment of a row, trimmed, lower-cased and with its accented o
\* folded, is in the allow-list
InAllowList(r) ==
    LET env == r["Ambiente"]
        folded == [i \in DOMAIN Chars(lower(strip(env))) |->
                      IF Chars(lower(strip(env)))[i] = "ó" THEN "o"
                      ELSE Chars(lower(strip(env)))[i]]
    IN  env # NA /\ Str(folded) \in PROD_ENVIRONMENTS

\* the row predicate of a filter step
Passes(op, arg, r) ==
    CASE op = "filter_by_year" ->
            r["Hora de creacion"] # NaT /\ r["Hora de creacion"].year = arg.value
      [] op = "filter_by_client" ->
            InList(r, "Grupo", arg.value)
      [] op = "filter_by_team" -> InList(r, "Team Asignado", arg.value)
      [] op = "filter_by_types" -> InList(r, "Tipo", arg.value)
      [] op = "filter_production_environment" -> InAllowList(r)
      [] op = "filter_resolved_by_year" ->
            r["Hora de resolucion"] # NaT /\ r["Hora de resolucion"].year = arg.value

\* C13: two filters applied in either order give the same rows, and the
\* rows they give are those that pass the predicate of each.
C13_FiltersCommute ==
    call.op = "filter_pair" =>
       /\ result = Frame(filter_in(ALL_COLUMNS, call.first_op,
                                   filter_in(ALL_COLUMNS, call.second_op, records,
                                             call.second_arg),
                                   call.first_arg))
       /\ result = Frame(SelectSeq(records, LAMBDA r :
                            /\ Passes(call.first_op, call.first_arg, r)
                            /\ Passes(call.second_op, call.second_arg, r)))

\* the year filter and the production filter each drop the row the other
\* keeps
C13_Witness ==
    /\ call.op = "filter_pair"
    /\ call.first_op = "filter_by_year"
    /\ call.second_op = "filter_production_environment"
    /\ Len(records) = 2
    /\ filter_by_year(records, call.first_arg) = <<records[2]>>
    /\ filter_production_environment(records) = <<records[1]>>
    /\ result = Frame(<<>>)

\* C20: filter_production_environment returns exactly the rows whose
\* environment, trimmed, lower-cased and folded, is in the allow-list; a row
\* with a null or blank environment is never kept; the result is a subset of
\* the input.
C20_ProductionFilterIsAllowList ==
    call.op = "filter_production_environment" =>
       /\ result = Frame(SelectSeq(records, InAllowList))
       /\ \A i \in DOMAIN result.frame :
             /\ result.frame[i]["Ambiente"] # NA
             /\ strip(result.frame[i]["Ambiente"]) # ""
             /\ \E j \in DOMAIN records : records[j] = result.frame[i]

\* an accented production row kept, a blank or null environment dropped
C20_Witness ==
    /\ call.op = "filter_production_environment"
    /\ Len(records) = 2
    /\ records[1]["Ambiente"] \in {"", NA}
    /\ records[2]["Ambiente"] = "Producción"
    /\ result = Frame(<<records[2]>>)

(***************************************************************************)
(* Dashboard sections over the two-year comparison window                  *)
(***************************************************************************)
\* resolve_comparison_years: the years [current_year - 1, current_year]
resolve_comparison_years(selected_year, today) ==
    LET current_year == IF selected_year = None \/ selected_year.value = 0
                        THEN today ELSE selected_year.value
    IN  <<current_year - 1, current_year>>

\* df.dropna(subset=[col]) on a timestamp column
dropna(df, col) == SelectSeq(df, LAMBDA r : r[col] # NaT)

\* df[mask]
RECURSIVE boolean_index(_, _)
boolean_index(df, mask) ==
    IF Len(df) = 0 THEN <<>>
    ELSE (IF Head(mask) THEN <<Head(df)>> ELSE <<>>) \o boolean_index(Tail(df), Tail(mask))

\* pd.Series(0, index=month_order)
zero_counts == [m \in Range(month_order) |-> 0]

\* df.groupby(<month of date_col>)["ID del ticket"].nunique()
\*   .reindex(month_order, fill_value=0)
monthly_nunique(df, date_col) ==
    [m \in Range(month_order) |->
        nunique(column(SelectSeq(df, LAMBDA r : r[date_col] # NaT /\ r[date_col].month = m),
                       "ID del ticket"))]

\* TableBuilder.build_monthly_counts_table
build_monthly_counts_table(created_counts, resolved_counts) ==
    LET counted == Table(<<"Creados por cliente", "Resueltos por Soporte N5">>, month_order,
                         ("Creados por cliente" :> created_counts)
                         @@ ("Resueltos por Soporte N5" :> resolved_counts))
        named == rename_months(counted)
        with_total == set_column(named, "Total", sum_axis1(named))
    IN  set_row(with_total, "Total", sum_axis0(with_total))

\* the two rows of counts render_incidents_table computes for one year
flow_counts(base_filtered, year) ==
    LET created_base == filter_by_year(base_filtered, IntValue(year))
        created_prod == dropna(filter_production_environment(created_base), "Hora de creacion")
        created_counts == IF created_prod = <<>> THEN zero_counts
                          ELSE monthly_nunique(created_prod, "Hora de creacion")
        resolved_base == filter_resolved_by_year(base_filtered, IntValue(year))
        resolved_prod == filter_production_environment(resolved_base)
        resolved_mask == orchestrator_build_resolved_mask(RESOLVED_STATES, resolved_prod)
        resolved_counts == IF resolved_prod = <<>> THEN zero_counts
                           ELSE monthly_nunique(boolean_index(resolved_prod, resolved_mask),
                                                "Hora de resolucion")
    IN  [year |-> year, created |-> created_counts, resolved |-> resolved_counts]

\* what a section returns: None, or the tables stacked under their year rows
NoTables == [kind |-> "None"]
Tables(tables) == IF tables = <<>> THEN NoTables ELSE [kind |-> "tables", tables |-> tables]

\* DistributionSectionsRenderer.render_incidents_table
render_incidents_table(base_filtered, selected_year, today) ==
    LET years == resolve_comparison_years(selected_year, today)
        counts == [i \in DOMAIN years |-> flow_counts(base_filtered, years[i])]
        shown == SelectSeq(counts, LAMBDA c : ~(sum_seq([m \in DOMAIN month_order |-> c.created[m]]) = 0
                                               /\ sum_seq([m \in DOMAIN month_order |-> c.resolved[m]]) = 0))
    IN  Tables([i \in DOMAIN shown |->
                  [year |-> shown[i].year,
                   table |-> build_monthly_counts_table(shown[i].created, shown[i].resolved)]])

\* df[col] = values
with_column(df, col, values) == [i \in DOMAIN df |-> (col :> values[i]) @@ df[i]]

\* a section call that ends in an exception
Raised(e) == [kind |-> "raised", error |-> e]

\* the table of one year, or none when the section skips the year
NoTable == [kind |-> "skipped"]
YearTable(year, table) == [kind |-> "table", year |-> year, table |-> table]

\* the tables of the years the loop did not skip, in order
stacked(year_tables) ==
    LET shown == SelectSeq(year_tables, LAMBDA t : t.kind = "table")
    IN  Tables([i \in DOMAIN shown |-> [year |-> shown[i].year, table |-> shown[i].table]])

\* the records of one year in render_team_section and render_estado_section
year_records(base_filtered, year, prod_only) ==
    LET year_df == filter_by_year(base_filtered, IntValue(year))
    IN  IF prod_only THEN filter_production_environment(year_df) ELSE year_df

\* one pass of the loop of render_team_section
team_year_table(base_filtered, year, prod_only) ==
    LET year_df == year_records(base_filtered, year, prod_only)
    IN  IF year_df = <<>> THEN NoTable
        ELSE YearTable(year, build_pivot_table(year_df, "Team Asignado", "Sin team asignado"))

\* DistributionSectionsRenderer.render_team_section
render_team_section(base_filtered, selected_year, today, prod_only) ==
    LET years == resolve_comparison_years(selected_year, today)
    IN  stacked([i \in DOMAIN years |-> team_year_table(base_filtered, years[i], prod_only)])

\* the records of one year in render_resolucion_section
sla_records(base_filtered, year) ==
    filter_production_environment(filter_resolved_by_year(base_filtered, IntValue(year)))

\* one pass of the loop of render_resolucion_section
sla_year_table(base_filtered, year) ==
    LET sla_prod == sla_records(base_filtered, year)
        with_mes == [i \in DOMAIN sla_prod |->
                        [sla_prod[i] EXCEPT !["Mes"] = sla_prod[i]["Hora de resolucion"].month]]
        normalized == normalize_resolution_status_for_display(
                          column(with_mes, "Estado de resolucion"))
        pivot == build_pivot_table(
                     with_column(with_mes, "Estado de resolucion", normalized.value),
                     "Estado de resolucion", "Sin estado de resolución")
    IN  IF sla_prod = <<>> THEN NoTable
        ELSE IF normalized.raised # "" THEN Raised(normalized.raised)
        ELSE YearTable(year, add_sla_percentage_row(pivot))

\* SlaSectionsRenderer.render_resolucion_section
render_resolucion_section(base_filtered, selected_year, today) ==
    LET years == resolve_comparison_years(selected_year, today)
        year_tables == [i \in DOMAIN years |-> sla_year_table(base_filtered, years[i])]
    IN  IF \E i \in DOMAIN years : year_tables[i].kind = "raised"
        THEN year_tables[CHOOSE i \in DOMAIN years :
                            /\ year_tables[i].kind = "raised"
                            /\ \A j \in 1..(i - 1) : year_tables[j].kind # "raised"]
        ELSE stacked(year_tables)

COMMERCIAL_STATUS_ORDER == <<"Pendiente", "En progreso", "Resuelto">>

\* build_commercial_estado without its first mask
commercial_estado_without_pendiente(estado_grouped) ==
    LET estado_series == lower(strip(IF estado_grouped = NA THEN "" ELSE estado_grouped))
    IN  IF \/ estado_series = "resuelto"
           \/ \E sub \in {"resuelto", "cerrado", "solucionado"} : contains(estado_series, sub)
        THEN "Resuelto"
        ELSE IF contains(estado_series, "progreso") THEN "En progreso"
        ELSE NA

\* dashboard_domain.build_commercial_estado on one cell: the later mask wins
build_commercial_estado(estado_grouped) ==
    LET estado_series == lower(strip(IF estado_grouped = NA THEN "" ELSE estado_grouped))
    IN  IF \/ estado_series = "resuelto"
           \/ \E sub \in {"resuelto", "cerrado", "solucionado"} : contains(estado_series, sub)
        THEN "Resuelto"
        ELSE IF contains(estado_series, "progreso") THEN "En progreso"
        ELSE IF contains(estado_series, "pendiente") THEN "Pendiente"
        ELSE NA

\* DataFrame.reindex(index=index, fill_value=fill_value)
reindex_index(t, index, fill_value) ==
    Table(index, t.columns,
          [l \in Range(index) |-> [c \in Range(t.columns) |->
              IF l \in Range(t.index) THEN t.data[l][c] ELSE fill_value]])

\* the commercial pivot of render_estado_section
commercial_pivot(year_df) ==
    LET estado_df == SelectSeq(
            with_column(year_df, "Estado Comercial",
                        [i \in DOMAIN year_df |-> build_commercial_estado(year_df[i]["Estado Agrupado"])]),
            LAMBDA r : r["Estado Comercial"] # NA)
        counted == IF estado_df = <<>>
                   THEN Table(COMMERCIAL_STATUS_ORDER, month_order,
                              [l \in Range(COMMERCIAL_STATUS_ORDER) |-> zero_counts])
                   ELSE reindex_columns(
                            reindex_index(pivot_table(estado_df, "Estado Comercial"),
                                          COMMERCIAL_STATUS_ORDER, 0),
                            month_order, 0)
        named == rename_months(counted)
        with_total == set_column(named, "Total", sum_axis1(named))
    IN  set_row(with_total, "Total", sum_axis0(with_total))

\* one pass of the loop of render_estado_section
estado_year_table(base_filtered, year, prod_only, commercial_mode) ==
    LET year_df == year_records(base_filtered, year, prod_only)
        grouped == with_column(year_df, "Estado Agrupado",
                       [i \in DOMAIN year_df |->
                           orchestrator_estado_grouped(RESOLVED_STATES, year_df[i]["Estado"])])
    IN  IF year_df = <<>> THEN NoTable
        ELSE IF commercial_mode THEN YearTable(year, commercial_pivot(grouped))
        ELSE YearTable(year, build_pivot_table(grouped, "Estado Agrupado", "Sin estado"))

\* StatusSectionsRenderer.render_estado_section
render_estado_section(base_filtered, selected_year, today, prod_only, commercial_mode) ==
    LET years == resolve_comparison_years(selected_year, today)
    IN  stacked([i \in DOMAIN years |->
                    estado_year_table(base_filtered, years[i], prod_only, commercial_mode)])

Feb2024 == Timestamp(2024, 2)

\* tickets of the sections: production and QA, resolved and open, created
\* and resolved across the turn of the year, one ticket on two rows
SectionRows ==
    {Row("A", "Acme", "Soporte N5", "Incidencia", "Producción", "Resuelto", "Within SLA", "Alta", Dec2023, Jan2024),
     Row("A", "Acme", "Dev", "Incidencia", "prod", "Resuelto", "Within SLA", "Alta", Dec2023, Jan2024),
     Row("B", "Acme", "Dev", "Consulta", "prod", "Pendiente", "SLA Violated", "Media", Jan2024, Feb2024),
     Row("C", "Beta", NA, "Incidencia", "QA", "Cerrado", "SLA Violated", "Baja", Dec2023, Jan2024),
     Row("D", "Beta", "Dev", "Incidencia", "prod", "Abierto", "resolved", "Baja", NaT, Dec2023),
     Row("F", "Acme", "Dev", "Incidencia", "prod", "Cerrado", "Within SLA", "Alta", Jan2024, NaT),
     Row(NA, "Acme", "Dev", "Incidencia", "prod", "Resuelto", "Within SLA", "Alta", Jan2024, Jan2024),
     Row("G", "Acme", NA, "Incidencia", "prod", NA, "Dentro de SLA", "Alta", Feb2024, Feb2024),
     Row("H", "Beta", "Dev", "Consulta", "prod", "Pendiente - en progreso", NA, "Media", Feb2024, Feb2024),
     Row("J", "Beta", "Dev", "Incidencia", "prod", "Abierto", NA, "Baja", Feb2024, NaT)}

SelectedYears == {None, IntValue(2024)}

\* the year pd.Timestamp.today() falls in
TodayYears == {2025}

InitSections ==
    /\ header = <<>>
    /\ key = NoText
    /\ records = <<>>
    /\ call = NoCall
    /\ result = NoResult

LoadSectionRow == LoadRow(SectionRows)

RenderIncidentsTable ==
    /\ call = NoCall
    /\ \E selected_year \in SelectedYears, today \in TodayYears :
          /\ call' = [op |-> "render_incidents_table",
                      years |-> resolve_comparison_years(selected_year, today)]
          /\ result' = render_incidents_table(records, selected_year, today)
    /\ UNCHANGED <<header, key, records>>

RenderTeamSection ==
    /\ call = NoCall
    /\ \E selected_year \in SelectedYears, today \in TodayYears, prod_only \in BOOLEAN :
          /\ call' = [op |-> "render_team_section",
                      years |-> resolve_comparison_years(selected_year, today),
                      prod_only |-> prod_only]
          /\ result' = render_team_section(records, selected_year, today, prod_only)
    /\ UNCHANGED <<header, key, records>>

RenderResolucionSection ==
    /\ call = NoCall
    /\ \E selected_year \in SelectedYears, today \in TodayYears :
          /\ call' = [op |-> "render_resolucion_section",
                      years |-> resolve_comparison_years(selected_year, today)]
          /\ result' = render_resolucion_section(records, selected_year, today)
    /\ UNCHANGED <<header, key, records>>

RenderEstadoSection ==
    /\ call = NoCall
    /\ \E selected_year \in SelectedYears, today \in TodayYears,
          prod_only \in BOOLEAN, commercial_mode \in BOOLEAN :
          /\ call' = [op |-> "render_estado_section",
                      years |-> resolve_comparison_years(selected_year, today),
                      prod_only |-> prod_only, commercial_mode |-> commercial_mode]
          /\ result' = render_estado_section(records, selected_year, today, prod_only, commercial_mode)
    /\ UNCHANGED <<header, key, records>>

NextSections ==
    \/ LoadSectionRow
    \/ RenderIncidentsTable
    \/ RenderTeamSection
    \/ RenderResolucionSection
    \/ RenderEstadoSection

SpecSections == InitSections /\ [][NextSections]_vars

IsProduction(r) == normalize_environment(r["Ambiente"]) \in PROD_ENVIRONMENTS

IsResolved(r) == orchestrator_build_resolved_mask(RESOLVED_STATES, <<r>>)[1]

\* the distinct tickets of a population created in a month of a year
CreatedTickets(population, year, m) ==
    {r["ID del ticket"] : r \in {x \in population :
        x["Hora de creacion"] = Timestamp(year, m)}} \ {NA}

\* the resolved tickets of a population
ResolvedOf(population) == {x \in population : IsResolved(x)}

\* the distinct tickets of a resolved population resolved in a month of a
\* year, whatever their creation date
ResolvedTickets(resolved, year, m) ==
    {r["ID del ticket"] : r \in {x \in resolved :
        x["Hora de resolucion"] = Timestamp(year, m)}} \ {NA}

\* every flow table shown carries, month by month, the number of tickets of
\* the population created, and the number resolved, in its year
FlowTablesCount(population) ==
    call.op = "render_incidents_table" =>
        LET tickets == population
            resolved == ResolvedOf(tickets)
        IN  \A k \in DOMAIN (IF result.kind = "tables" THEN result.tables ELSE <<>>) :
                \A m \in DOMAIN MONTH_NAMES_ES :
                    LET shown == result.tables[k]
                    IN  /\ shown.table.data["Creados por cliente"][MONTH_NAMES_ES[m]]
                              = Cardinality(CreatedTickets(tickets, shown.year, m))
                        /\ shown.table.data["Resueltos por Soporte N5"][MONTH_NAMES_ES[m]]
                              = Cardinality(ResolvedTickets(resolved, shown.year, m))

ProductionRecords == {r \in Range(records) : IsProduction(r)}

C7_EveryYearHasFullTable ==
    call.op \in {"render_team_section", "render_resolucion_section", "render_estado_section"} =>
        /\ result.kind = "tables"
        /\ [k \in DOMAIN result.tables |-> result.tables[k].year] = call.years
        /\ \A k \in DOMAIN result.tables :
              /\ result.tables[k].table.columns = MONTH_NAMES_ES \o <<"Total">>
              /\ LET year_df == IF call.op = "render_resolucion_section"
                                THEN sla_records(records, result.tables[k].year)
                                ELSE year_records(records, result.tables[k].year, call.prod_only)
                 IN  year_df = <<>> =>
                        \A l \in Range(result.tables[k].table.index) :
                            result.tables[k].table.data[l]["Total"] = 0

\* the rule of a commercial bucket on a grouped status
InBucket(label, estado_grouped) ==
    LET text == IF estado_grouped = NA THEN "" ELSE lower(strip(estado_grouped))
    IN  CASE label = "Pendiente" -> contains(text, "pendiente")
          [] label = "En progreso" -> contains(text, "progreso")
          [] label = "Resuelto" ->
                \/ text = "resuelto"
                \/ contains(text, "resuelto") \/ contains(text, "cerrado")
                \/ contains(text, "solucionado")

C19_WitnessTwoRules ==
    /\ call.op = "render_estado_section"
    /\ call.commercial_mode
    /\ Len(records) = 1
    /\ records[1]["Estado"] = "Pendiente - en progreso"
    /\ result.kind = "tables"
    /\ result.tables[1].table.data["En progreso"]["Febrero"] = 1
    /\ result.tables[1].table.data["Pendiente"]["Febrero"] = 0
    /\ result.tables[1].table.data["Total"]["Total"] = 1

(***************************************************************************)
(* Record sets that lack a column.  In this specification header holds the *)
(* column names of the reconciled table, in order; a row keeps a cell for  *)
(* every column, and a cell of an absent column is never read.             *)
(***************************************************************************)
\* TicketStatusHelper.build_resolved_mask on a frame with these columns:
\* build_estado_grouped returns an all-null "Estado Agrupado" without
\* "Estado"; grouped_df["Estado de resolucion"] is read unguarded
build_resolved_mask_in(columns, states, df) ==
    IF "Estado de resolucion" \notin columns THEN Raise("KeyError")
    ELSE IF "Estado" \notin columns
    THEN Ok([i \in DOMAIN df |->
                lower(strip(astype_str(df[i]["Estado de resolucion"])))
                    \in normalized_resolved_states(states)])
    ELSE build_resolved_mask(states, df)

\* TableBuilder.build_pivot_table on a frame with these columns: df[index_col]
\* and the pivot's "Mes" and "ID del ticket" are read unguarded
build_pivot_table_in(columns, df, index_col, fill_missing) ==
    IF {index_col, "Mes", "ID del ticket"} \subseteq columns
    THEN Ok(build_pivot_table(df, index_col, fill_missing))
    ELSE Raise("KeyError")

\* the rows as the guarded paths of the sections see them: without
\* "Ambiente" the production filter returns every row, without "Estado"
\* the grouped status is null
guard_path_rows(columns, df) ==
    [i \in DOMAIN df |->
        [c \in DOMAIN df[i] |->
            IF c = "Ambiente" /\ c \notin columns THEN "prod"
            ELSE IF c = "Estado" /\ c \notin columns THEN NA
            ELSE df[i][c]]]

\* DistributionSectionsRenderer.render_team_section on a frame with these
\* columns: without "Año" filter_by_year returns every row for both years
render_team_section_in(columns, df, selected_year, today, prod_only) ==
    LET years == resolve_comparison_years(selected_year, today)
        rows == guard_path_rows(columns, df)
        some_year == IF "Año" \in columns
                     THEN \E i \in DOMAIN years : year_records(rows, years[i], prod_only) # <<>>
                     ELSE rows # <<>>
    IN  IF some_year /\ ~({"Team Asignado", "Mes", "ID del ticket", "Año"} \subseteq columns)
        THEN Raised("KeyError")
        ELSE render_team_section(rows, selected_year, today, prod_only)

\* DistributionSectionsRenderer.render_incidents_table on a frame with these
\* columns: dropna(subset=["Hora de creacion"]) and the resolved mask run for
\* every year, the group-by only over a non-empty year
render_incidents_table_in(columns, df, selected_year, today) ==
    LET years == resolve_comparison_years(selected_year, today)
        rows == guard_path_rows(columns, df)
    IN  IF ~({"Hora de creacion", "Estado de resolucion"} \subseteq columns) THEN Raised("KeyError")
        ELSE IF /\ "ID del ticket" \notin columns
                /\ \E i \in DOMAIN years :
                      \/ year_records(rows, years[i], TRUE) # <<>>
                      \/ sla_records(rows, years[i]) # <<>>
        THEN Raised("KeyError")
        ELSE render_incidents_table(rows, selected_year, today)

MaxMissing == 1

\* three tickets of the reconciled table
MissingRows ==
    {Row("A", "Acme", "Soporte N5", "Incidencia", "Producción", "Resuelto", "Within SLA", "Alta", Dec2023, Jan2024),
     Row("B", "Acme", "Dev", "Consulta", "QA", "Abierto", "closed", "Media", Jan2024, Jan2024),
     Row("C", "Beta", "Dev", "Incidencia", "prod", "Pendiente", "SLA Violated", "Baja", Jan2024, NaT)}

InitMissing ==
    /\ header = FRAME_COLUMNS
    /\ key = NoText
    /\ records = <<>>
    /\ call = NoCall
    /\ result = NoResult

\* the uploaded file has no column for a core name: validate_and_standardize
\* warns (missing_core) and returns the table without it
CoreColumnAbsent ==
    /\ records = <<>>
    /\ Len(missing_core(header)) <= MaxMissing
    /\ \E col \in Range(header) \cap Range(CORE_COLUMNS) :
          header' = SelectSeq(header, LAMBDA h : h # col)
    /\ UNCHANGED <<key, records, call, result>>

LoadMissingRow == LoadRow(MissingRows)

FilterIn ==
    /\ call = NoCall
    /\ \E step \in {<<"filter_by_year", IntValue(2024)>>, <<"filter_by_client", StrValue("Acme")>>,
                    <<"filter_by_team", List(<<"Dev">>)>>, <<"filter_by_types", List(<<"Incidencia">>)>>,
                    <<"filter_production_environment", None>>,
                    <<"filter_resolved_by_year", IntValue(2024)>>} :
          /\ call' = [op |-> step[1], arg |-> step[2]]
          /\ result' = Frame(filter_in(preprocess_columns(header), step[1], records, step[2]))
    /\ UNCHANGED <<header, key, records>>

BuildResolvedMaskIn ==
    /\ call = NoCall
    /\ call' = [op |-> "build_resolved_mask"]
    /\ result' = [kind |-> "mask",
                  outcome |-> build_resolved_mask_in(preprocess_columns(header), RESOLVED_STATES, records)]
    /\ UNCHANGED <<header, key, records>>

BuildPivotTableIn ==
    /\ call = NoCall
    /\ \E pivot_call \in PivotCalls :
          /\ call' = [op |-> "build_pivot_table", index_col |-> pivot_call[1]]
          /\ result' = [kind |-> "pivot",
                        outcome |-> build_pivot_table_in(preprocess_columns(header), records,
                                                         pivot_call[1], pivot_call[2])]
    /\ UNCHANGED <<header, key, records>>

RenderTeamSectionIn ==
    /\ call = NoCall
    /\ \E prod_only \in BOOLEAN :
          /\ call' = [op |-> "render_team_section", prod_only |-> prod_only]
          /\ result' = render_team_section_in(preprocess_columns(header), records,
                                              IntValue(2024), 2025, prod_only)
    /\ UNCHANGED <<header, key, records>>

RenderIncidentsTableIn ==
    /\ call = NoCall
    /\ call' = [op |-> "render_incidents_table"]
    /\ result' = render_incidents_table_in(preprocess_columns(header), records, IntValue(2024), 2025)
    /\ UNCHANGED <<header, key, records>>

NextMissing ==
    \/ CoreColumnAbsent
    \/ LoadMissingRow
    \/ FilterIn
    \/ BuildResolvedMaskIn
    \/ BuildPivotTableIn
    \/ RenderTeamSectionIn
    \/ RenderIncidentsTableIn

SpecMissing == InitMissing /\ [][NextMissing]_vars

\* the call at hand ended in an exception
CallRaised ==
    \/ result.kind = "raised"
    \/ result.kind \in {"mask", "pivot"} /\ result.outcome.raised # ""

\* C11: on a table that lacks a core column every later step - the filters,
\* the resolved predicate, build_pivot_table, the section renderers -
\* completes without raising.
C11_MissingCoreColumnNeverRaises ==
    (missing_core(header) # <<>> /\ call # NoCall) => ~CallRaised



(***************************************************************************)
(* DataValidator.validate_and_standardize on an uploaded table: header     *)
(* holds the incoming column names, records the cells of each column.      *)
(***************************************************************************)
REQUIRED_COLUMNS == <<
    "ID del ticket", "Asunto", "Estado", "Prioridad", "Origen", "Tipo",
    "Agente", "Grupo", "Hora de creacion", "Tiempo de vencimiento",
    "Hora de resolucion", "Hora de cierre", "Hora de Ultima actualizacion",
    "Tiempo de respuesta inicial", "Tiempo transcurrido",
    "Tiempo de primera respuesta (en horas)", "Tiempo de resolucion (en horas)",
    "Interacciones del agente", "Interacciones del cliente",
    "Estado de resolucion", "Estado de primera respuesta", "Etiquetas",
    "Resultados de la encuesta", "Habilidad", "Tipo de asociacion",
    "El estado de cada respuesta", "Producto", "Ambiente", "Team Asignado",
    "Responsable Tk", "Url afectada", "Fecha Estimada", "Esfuerzo en Horas",
    "Modulo", "Nombre completo", "ID del contacto" >>

MaxColumns == 3

\* the column names of the uploads: two spellings of one canonical name, an
\* accented one, one that is canonical already, one that matches none
IncomingHeaders == {"ESTADO ", "estado", "Módulo", "Estado", "Notas"}

\* the cells of a column: with a value, all null, blank and null
ColumnCells == {<<"x", NA>>, <<NA, NA>>, <<" ", "">>}

\* the column names of the uploads that go through preprocess: a text
\* column under two spellings, a date column, a numeric column, the two
\* product columns and a secondary module column
UploadHeaders ==
    {"Estado", "estado", "Hora de creacion", "Esfuerzo en Horas",
     "Producto", "Producto.1", "Modulo.1"}

\* TextNormalizer.normalize_column_name of the names at hand
COLUMN_KEYS ==
    [name \in IncomingHeaders \cup UploadHeaders \cup Range(REQUIRED_COLUMNS) |->
        normalize_column_name(Chars(name))]

\* df.replace(r"^\s*$", pd.NA, regex=True) left out
keep_blank(cells) == cells

\* df.replace(r"^\s*$", pd.NA, regex=True) on the cells of a column
replace_blank(cells) ==
    [i \in DOMAIN cells |-> IF cells[i] # NA /\ strip(cells[i]) = "" THEN NA ELSE cells[i]]

\* df.dropna(axis=1, how="all"): the positions of the columns that stay
dropna_columns(cells) ==
    SelectSeq([i \in DOMAIN cells |-> i],
              LAMBDA i : \E j \in DOMAIN cells[i] : replace_blank(cells[i])[j] \notin {NA, NaN})

\* DataValidator._build_column_map: of two names with one key the later stays
build_column_map(columns) ==
    [k \in {COLUMN_KEYS[columns[i]] : i \in DOMAIN columns} |->
        columns[CHOOSE i \in DOMAIN columns :
                   /\ COLUMN_KEYS[columns[i]] = k
                   /\ \A j \in DOMAIN columns : COLUMN_KEYS[columns[j]] = k => j <= i]]

\* DataValidator._build_rename_map
build_rename_map(normalized_map) ==
    LET found == {i \in DOMAIN REQUIRED_COLUMNS :
                     COLUMN_KEYS[REQUIRED_COLUMNS[i]] \in DOMAIN normalized_map}
        actual(i) == normalized_map[COLUMN_KEYS[REQUIRED_COLUMNS[i]]]
    IN  [name \in {actual(i) : i \in found} |->
            REQUIRED_COLUMNS[CHOOSE i \in found :
                                /\ actual(i) = name
                                /\ \A j \in found : actual(j) = name => j <= i]]

\* DataValidator.validate_and_standardize: the columns of the returned
\* table, each with the position it had in the upload
validate_and_standardize(names, cells) ==
    LET kept == dropna_columns(cells)
        columns == [i \in DOMAIN kept |-> names[kept[i]]]
        rename_map == build_rename_map(build_column_map(columns))
    IN  [i \in DOMAIN kept |->
            [name |-> IF columns[i] \in DOMAIN rename_map THEN rename_map[columns[i]]
                      ELSE columns[i],
             origin |-> kept[i]]]

InitValidate ==
    /\ header = <<>>
    /\ key = NoText
    /\ records = <<>>
    /\ call = NoCall
    /\ result = NoResult

\* a column of the uploaded sheet is read; read_excel keeps the names distinct
ReadColumn ==
    /\ Len(header) < MaxColumns
    /\ \E name \in IncomingHeaders \ Range(header), cells \in ColumnCells :
          /\ header' = Append(header, name)
          /\ records' = Append(records, cells)
    /\ call' = NoCall
    /\ result' = NoResult
    /\ UNCHANGED key

ValidateAndStandardize ==
    /\ call = NoCall
    /\ call' = [op |-> "validate_and_standardize"]
    /\ result' = [kind |-> "columns", columns |-> validate_and_standardize(header, records)]
    /\ UNCHANGED <<header, key, records>>

NextValidate == ReadColumn \/ ValidateAndStandardize

SpecValidate == InitValidate /\ [][NextValidate]_vars

\* every cell of the i-th incoming column is null or whitespace
EntirelyNull(i) == \A j \in DOMAIN records[i] : records[i][j] = NA \/ strip(records[i][j]) = ""

\* the name matches a canonical name by key
MatchesCanonical(name) ==
    \E c \in DOMAIN REQUIRED_COLUMNS :
        COLUMN_KEYS[REQUIRED_COLUMNS[c]] = COLUMN_KEYS[name]

\* the second and third part of C15: a column with a value whose key matches
\* no canonical name keeps its name, a column without a value is absent
UnmatchedKeptAndNullAbsent ==
    LET columns == result.columns
    IN  /\ \A i \in DOMAIN header :
              (~EntirelyNull(i) /\ ~MatchesCanonical(header[i])) =>
                  \E k \in DOMAIN columns :
                      columns[k].origin = i /\ columns[k].name = header[i]
        /\ \A i \in DOMAIN header :
              EntirelyNull(i) => \A k \in DOMAIN columns : columns[k].origin # i

\* C15 as stated: after validate_and_standardize every canonical name whose
\* key is the key of some incoming header is a column, every incoming column
\* with a value and no canonical match is present under its own name, and
\* the columns that are all null or blank are absent.
C15_CanonicalOfEveryIncomingHeader ==
    call.op = "validate_and_standardize" =>
        /\ \A c \in DOMAIN REQUIRED_COLUMNS :
              (\E i \in DOMAIN header :
                  COLUMN_KEYS[header[i]] = COLUMN_KEYS[REQUIRED_COLUMNS[c]])
              => \E k \in DOMAIN result.columns : result.columns[k].name = REQUIRED_COLUMNS[c]
        /\ UnmatchedKeptAndNullAbsent

\* C15, amended: the canonical name is a column when its key is the key of
\* some incoming header whose column is not entirely null or blank.
C15_CanonicalOfEveryKeptHeader ==
    call.op = "validate_and_standardize" =>
        /\ \A c \in DOMAIN REQUIRED_COLUMNS :
              (\E i \in DOMAIN header :
                  /\ ~EntirelyNull(i)
                  /\ COLUMN_KEYS[header[i]] = COLUMN_KEYS[REQUIRED_COLUMNS[c]])
              => \E k \in DOMAIN result.columns : result.columns[k].name = REQUIRED_COLUMNS[c]
        /\ UnmatchedKeptAndNullAbsent

\* an upload whose 'ESTADO ' column is renamed, whose 'Notas' column stays
\* and whose blank 'Módulo' column is dropped
C15_Witness ==
    /\ call.op = "validate_and_standardize"
    /\ header = <<"ESTADO ", "Módulo", "Notas">>
    /\ records = <<<<"x", NA>>, <<" ", "">>, <<"x", NA>>>>
    /\ result.columns = <<[name |-> "Estado", origin |-> 1], [name |-> "Notas", origin |-> 3]>>

\* C27: after validate_and_standardize the column names of the table are
\* pairwise distinct, so at most one column carries each canonical name,
\* also when two incoming headers share a key or one is canonical already.
C27_ColumnNamesPairwiseDistinct ==
    call.op = "validate_and_standardize" =>
        \A i, j \in DOMAIN result.columns :
            result.columns[i].name = result.columns[j].name => i = j



(***************************************************************************)
(* DataPreprocessor.preprocess on the validated upload. A table is the     *)
(* sequence of its columns, each with its name, the position it had in the *)
(* upload (0 for a column the pipeline adds) and its cells.                *)
(***************************************************************************)
DATETIME_COLUMNS == <<
    "Hora de creacion", "Tiempo de vencimiento", "Hora de resolucion",
    "Hora de cierre", "Hora de Ultima actualizacion", "Fecha Estimada" >>

NUMERIC_COLUMNS == <<
    "Tiempo de primera respuesta (en horas)", "Tiempo de resolucion (en horas)",
    "Tiempo de respuesta inicial", "Tiempo transcurrido",
    "Interacciones del agente", "Interacciones del cliente", "Esfuerzo en Horas" >>

TEXT_COLUMNS == <<"Grupo", "Tipo", "Ambiente", "Estado", "Estado de resolucion", "Modulo">>

Column(name, origin, cells) == [name |-> name, origin |-> origin, cells |-> cells]

\* a float cell and the float null
Float(n) == [nan |-> FALSE, value |-> n]
FloatNaN == [nan |-> TRUE, value |-> 0]

has_column(df, col) == \E k \in DOMAIN df : df[k].name = col

\* df[col] is a Series only when one column carries the name
is_series(df, col) == Cardinality({k \in DOMAIN df : df[k].name = col}) = 1

series(df, col) == df[CHOOSE k \in DOMAIN df : df[k].name = col].cells

\* df.drop(columns=cols)
drop_columns(df, cols) == SelectSeq(df, LAMBDA c : c.name \notin cols)

\* df.rename(columns={old: new})
rename_column(df, old, new) ==
    [k \in DOMAIN df |-> IF df[k].name = old THEN [df[k] EXCEPT !.name = new] ELSE df[k]]

\* df[col] = values : in place when the column exists, appended otherwise
assign_column(df, col, values) ==
    IF has_column(df, col)
    THEN [k \in DOMAIN df |-> IF df[k].name = col THEN [df[k] EXCEPT !.cells = values] ELSE df[k]]
    ELSE Append(df, Column(col, 0, values))

\* the table validate_and_standardize returns, with its cells
validated_table(names, cells) ==
    LET columns == validate_and_standardize(names, cells)
    IN  [k \in DOMAIN columns |->
            Column(columns[k].name, columns[k].origin, replace_blank(cells[columns[k].origin]))]

\* (producto_values.eq("") | producto_values.eq("no product")).all()
producto_is_placeholder(values) ==
    \A i \in DOMAIN values : values[i] = "" \/ values[i] = "no product"

\* DataPreprocessor._clean_duplicate_columns
clean_duplicate_columns(df) ==
    LET without_modulo == drop_columns(drop_columns(df, {"Modulo.1"}), {"Modulo.2"})
    IN  IF has_column(without_modulo, "Producto") /\ has_column(without_modulo, "Producto.1")
        THEN LET producto == series(without_modulo, "Producto")
                 producto_values ==
                     [i \in DOMAIN producto |->
                         LET v == lower(strip(astype_str(producto[i])))
                         IN  IF v = "nan" THEN "" ELSE v]
             IN  IF producto_is_placeholder(producto_values)
                 THEN rename_column(drop_columns(without_modulo, {"Producto"}),
                                    "Producto.1", "Producto")
                 ELSE without_modulo
        ELSE without_modulo

is_digits(s) == Len(s) > 0 /\ \A i \in 1..Len(s) : SubSeq(s, i, i) \in CharSet(DIGITS)

digit_value(c) == CHOOSE d \in 0..9 : SubSeq(DIGITS, d + 1, d + 1) = c

RECURSIVE int_of(_)
int_of(s) ==
    IF Len(s) = 0 THEN 0
    ELSE 10 * int_of(SubSeq(s, 1, Len(s) - 1)) + digit_value(SubSeq(s, Len(s), Len(s)))

days_in_month(y, m) ==
    IF m = 2 THEN (IF y % 4 = 0 /\ (y % 100 # 0 \/ y % 400 = 0) THEN 29 ELSE 28)
    ELSE IF m \in {4, 6, 9, 11} THEN 30 ELSE 31

\* pd.to_datetime(value, errors="coerce") of one cell: a text of the form
\* YYYY-MM-DD with a month and a day that exist, otherwise NaT
to_datetime(v) ==
    IF /\ v \notin {NA, NaN}
       /\ Len(v) = 10
       /\ is_digits(SubSeq(v, 1, 4)) /\ SubSeq(v, 5, 5) = "-"
       /\ is_digits(SubSeq(v, 6, 7)) /\ SubSeq(v, 8, 8) = "-"
       /\ is_digits(SubSeq(v, 9, 10))
       /\ int_of(SubSeq(v, 1, 4)) >= 1
       /\ int_of(SubSeq(v, 6, 7)) \in 1..12
       /\ int_of(SubSeq(v, 9, 10)) \in
              1..days_in_month(int_of(SubSeq(v, 1, 4)), int_of(SubSeq(v, 6, 7)))
    THEN Timestamp(int_of(SubSeq(v, 1, 4)), int_of(SubSeq(v, 6, 7)))
    ELSE NaT

\* pd.to_numeric(value, errors="coerce") of one cell
to_numeric(v) ==
    IF v \notin {NA, NaN} /\ is_digits(v) THEN Float(int_of(v)) ELSE FloatNaN

\* TextNormalizer.clean_text_series
clean_text_series(data) ==
    [i \in DOMAIN data |->
        LET cleaned == strip(astype_str(data[i]))
        IN  IF cleaned = "nan" THEN NA ELSE cleaned]

\* the loop of _parse_datetime_columns, of _parse_numeric_columns and of
\* _clean_text_columns over the columns of the table
convert_columns(df) ==
    [k \in DOMAIN df |->
        IF df[k].name \in Range(DATETIME_COLUMNS)
        THEN [df[k] EXCEPT !.cells = [i \in DOMAIN @ |-> to_datetime(@[i])]]
        ELSE IF df[k].name \in Range(NUMERIC_COLUMNS)
        THEN [df[k] EXCEPT !.cells = [i \in DOMAIN @ |-> to_numeric(@[i])]]
        ELSE IF df[k].name \in Range(TEXT_COLUMNS)
        THEN [df[k] EXCEPT !.cells = clean_text_series(@)]
        ELSE df[k]]

\* DataPreprocessor._add_temporal_columns
temporal_columns(df) ==
    IF has_column(df, "Hora de creacion")
    THEN LET creado == series(df, "Hora de creacion")
             year == [i \in DOMAIN creado |->
                         IF creado[i] = NaT THEN FloatNaN ELSE Float(creado[i].year)]
             month == [i \in DOMAIN creado |->
                         IF creado[i] = NaT THEN FloatNaN ELSE Float(creado[i].month)]
             name == [i \in DOMAIN creado |->
                         IF creado[i] = NaT THEN NaN ELSE MONTH_NAMES_ES[creado[i].month]]
         IN  assign_column(assign_column(assign_column(assign_column(assign_column(
                 df, "Año", year), "Mes", month), "Mes Nombre", name),
                 "Mes Orden", month), "Periodo", creado)
    ELSE df

\* DataPreprocessor._add_composite_columns
composite_columns(df) ==
    IF has_column(df, "Responsable Tk") /\ has_column(df, "Agente")
    THEN LET responsable == series(df, "Responsable Tk")
             agente == series(df, "Agente")
         IN  assign_column(df, "Agente/Responsable",
                 [i \in DOMAIN responsable |->
                     IF responsable[i] \notin {NA, NaN} /\ strip(astype_str(responsable[i])) # ""
                     THEN responsable[i] ELSE agente[i]])
    ELSE df

\* DataPreprocessor.preprocess: df[col] of a name two columns carry is a
\* DataFrame, which to_datetime, to_numeric and .str do not take
preprocess(df) ==
    LET cleaned == clean_duplicate_columns(df)
        twice(cols) == \E i \in DOMAIN cols :
                           has_column(cleaned, cols[i]) /\ ~is_series(cleaned, cols[i])
    IN  IF twice(DATETIME_COLUMNS) THEN Raise("ValueError")
        ELSE IF twice(NUMERIC_COLUMNS) THEN Raise("TypeError")
        ELSE IF twice(TEXT_COLUMNS) THEN Raise("AttributeError")
        ELSE Ok(composite_columns(temporal_columns(convert_columns(cleaned))))

\* the cells of the uploaded columns, by column name
UploadCells(name) ==
    IF name \in {"Estado", "estado"} THEN {<<" Abierto ", NaN>>, <<"nan", " ">>}
    ELSE IF name = "Hora de creacion" THEN {<<"2024-01-15", "mañana">>, <<NaN, "2023-12-01">>}
    ELSE IF name = "Esfuerzo en Horas" THEN {<<"12", "doce">>, <<"7", NaN>>}
    ELSE IF name = "Producto"
    THEN {<<"No Product", NaN>>, <<"CRM", "no product">>, <<" ", "NO PRODUCT ">>, <<NaN, NaN>>}
    ELSE IF name = "Producto.1" THEN {<<"ERP", "ERP">>, <<"ERP", NaN>>}
    ELSE {<<"Ventas", NaN>>}

InitPreprocess ==
    /\ header = <<>>
    /\ key = NoText
    /\ records = <<>>
    /\ call = NoCall
    /\ result = NoResult

\* a column of the uploaded sheet is read; read_excel keeps the names distinct
ReadUploadColumn ==
    /\ Len(header) < MaxColumns
    /\ \E name \in UploadHeaders \ Range(header) :
          \E cells \in UploadCells(name) :
              /\ header' = Append(header, name)
              /\ records' = Append(records, cells)
    /\ call' = NoCall
    /\ result' = NoResult
    /\ UNCHANGED key

\* TicketAnalysisApp: validate_and_standardize, then preprocess
Preprocess ==
    /\ call = NoCall
    /\ call' = [op |-> "preprocess"]
    /\ LET validated == validated_table(header, records)
       IN  result' = [kind |-> "preprocess",
                      validated |-> validated,
                      deduplicated |-> clean_duplicate_columns(validated),
                      outcome |-> preprocess(validated)]
    /\ UNCHANGED <<header, key, records>>

NextPreprocess == ReadUploadColumn \/ Preprocess

SpecPreprocess == InitPreprocess /\ [][NextPreprocess]_vars

\* the product columns of a table
ProductColumns(df) == {k \in DOMAIN df : df[k].name \in {"Producto", "Producto.1"}}

\* every row's primary product is blank or the placeholder literal
PrimaryIsBlank(df) ==
    \A i \in DOMAIN series(df, "Producto") :
        LET v == series(df, "Producto")[i]
        IN  v \in {NA, NaN} \/ strip(v) = "" \/ lower(strip(v)) = "no product"

\* C21: when both product columns are present the secondary replaces the
\* primary if and only if every row's primary value is blank or 'no product'
\* in any case; either way exactly one product column remains after
\* _clean_duplicate_columns and no secondary module column.
C21_OneProductColumnRemains ==
    (/\ call.op = "preprocess"
     /\ has_column(result.validated, "Producto")
     /\ has_column(result.validated, "Producto.1")) =>
        LET before == result.validated
            after == result.deduplicated
            secondary == CHOOSE k \in DOMAIN before : before[k].name = "Producto.1"
            replaced == \E k \in DOMAIN after :
                            /\ after[k].name = "Producto"
                            /\ after[k].origin = before[secondary].origin
        IN  /\ replaced <=> PrimaryIsBlank(before)
            /\ Cardinality(ProductColumns(after)) = 1
            /\ ~has_column(after, "Modulo.1") /\ ~has_column(after, "Modulo.2")

\* the texts of the uploads that are a date, and those that are a number
ParseableDates == {"2024-01-15", "2023-12-01"}
ParseableNumbers == {"12", "7"}

\* the cell of the i-th row in the uploaded column a column comes from,
\* a whitespace-only text read as null
UploadedCell(c, i) == replace_blank(records[c.origin])[i]

\* C22: validate_and_standardize followed by preprocess never raises and
\* never drops or adds a row: every column of the output has the rows of
\* the upload in their order, a date or number that does not parse is null
\* in its cell only, one that parses is not null, and the cells of the
\* other columns are as uploaded.
C22_RowsKeptBadCellsNull ==
    call.op = "preprocess" =>
        /\ result.outcome.raised = ""
        /\ \A k \in DOMAIN result.outcome.value :
              LET c == result.outcome.value[k]
              IN  /\ Len(c.cells) = Len(records[1])
                  /\ c.origin # 0 =>
                        \A i \in DOMAIN c.cells :
                            IF c.name \in Range(DATETIME_COLUMNS)
                            THEN c.cells[i] # NaT <=> records[c.origin][i] \in ParseableDates
                            ELSE IF c.name \in Range(NUMERIC_COLUMNS)
                            THEN ~c.cells[i].nan <=> records[c.origin][i] \in ParseableNumbers
                            ELSE IF c.name \in Range(TEXT_COLUMNS)
                            THEN c.cells[i] \in {NA, "<NA>", strip(astype_str(UploadedCell(c, i)))}
                            ELSE c.cells[i] = UploadedCell(c, i)

\* the uploaded cell is null, empty, whitespace-only or the literal 'nan'
BlankInUpload(v) == v \in {NA, NaN} \/ strip(v) = "" \/ v = "nan"

\* C23: after validate_and_standardize and preprocess, in each of the text
\* columns Grupo, Tipo, Ambiente, Estado, Estado de resolucion and Modulo
\* every value that was null, empty, whitespace-only or 'nan' in the upload
\* is a true null, never a text.
C23_BlankTextIsNull ==
    (call.op = "preprocess" /\ result.outcome.raised = "") =>
        \A k \in DOMAIN result.outcome.value :
            LET c == result.outcome.value[k]
            IN  (c.name \in Range(TEXT_COLUMNS) /\ c.origin # 0) =>
                    \A i \in DOMAIN c.cells :
                        BlankInUpload(records[c.origin][i]) => c.cells[i] = NA



(***************************************************************************)
(* Tables as objects: records is the sequence of the tables that exist,    *)
(* the enriched record set first; a call reads the table at a position and *)
(* returns a position, that of a new table or that of its argument.        *)
(***************************************************************************)
MaxObjects == 3

Object(kind, value) == [kind |-> kind, value |-> value]

\* the assignments made on the argument itself
assign_in_place(store, input, value) == [store EXCEPT ![input] = value]

\* df.copy(), then the assignments on the copy: a new table, the argument
\* as it was
copy_and_assign(store, input, value) == Append(store, value)

\* the early return of a filter that has nothing to select: return df
returns_df(op, arg) ==
    CASE op = "filter_by_year" -> arg = None
      [] op = "filter_by_client" ->
            IF arg.type = "list" THEN arg.value = <<>>
            ELSE arg = None \/ arg = StrValue("") \/ arg = StrValue("Todos")
      [] op = "filter_by_team" -> arg.value = <<>>
      [] op = "filter_by_types" -> arg.value = <<>>
      [] op = "filter_production_environment" -> FALSE
      [] op = "filter_resolved_by_year" -> arg = None

\* the enriched record sets: none, two tickets, two tickets one of which
\* has neither status nor resolution status
EnrichedSets ==
    {<<>>,
     <<Row("A", "Acme", "Soporte N5", "Incidencia", "Producción", "Resuelto", "Within SLA", "Alta", Dec2023, Jan2024),
       Row("B", "Acme", "Dev", "Consulta", "prod", "Abierto", NA, "Media", Jan2024, NaT)>>,
     <<Row("C", "Beta", NA, "Incidencia", "QA", "Cerrado", "SLA Violated", "Baja", Jan2024, Jan2024),
       Row("D", NA, "Dev", NA, NA, NA, NA, NA, NaT, Dec2023)>>}

ObjectArgs(op) ==
    CASE op = "filter_by_year" -> {None, IntValue(2024)}
      [] op = "filter_by_client" -> {List(<<>>), StrValue("Todos"), StrValue("Acme")}
      [] op = "filter_by_team" -> {List(<<>>), List(<<"Dev">>)}
      [] op = "filter_by_types" -> {List(<<>>), List(<<"Incidencia">>)}
      [] op = "filter_production_environment" -> {None}
      [] op = "filter_resolved_by_year" -> {None, IntValue(2024)}

\* the positions of the tables of one kind
Positions(kind) == {i \in DOMAIN records : records[i].kind = kind}

Returned(id) == [kind |-> "object", id |-> id]

InitObjects ==
    /\ header = <<>>
    /\ key = NoText
    /\ records \in {<<Object("frame", df)>> : df \in EnrichedSets}
    /\ call = NoCall
    /\ result = NoResult

\* a filter of DataFilter on one of the record sets: df itself when there
\* is nothing to select, else df[mask]
FilterCall ==
    /\ \E input \in Positions("frame"), i \in DOMAIN PairOps :
          \E arg \in ObjectArgs(PairOps[i]) :
              /\ call' = [op |-> PairOps[i], input |-> input, arg |-> arg]
              /\ IF returns_df(PairOps[i], arg)
                 THEN /\ records' = records
                      /\ result' = Returned(input)
                 ELSE /\ Len(records) < MaxObjects
                      /\ records' = Append(records,
                             Object("frame", filter_in(ALL_COLUMNS, PairOps[i], records[input].value, arg)))
                      /\ result' = Returned(Len(records) + 1)
    /\ UNCHANGED <<header, key>>

\* TicketStatusHelper.build_estado_grouped on one of the record sets
BuildEstadoGroupedCall ==
    /\ Len(records) < MaxObjects
    /\ \E input \in Positions("frame") :
          LET grouped_df == build_estado_grouped(RESOLVED_STATES, records[input].value, "Estado Agrupado")
          IN  /\ call' = [op |-> "build_estado_grouped", input |-> input, arg |-> None]
              /\ IF grouped_df.raised # ""
                 THEN /\ records' = records
                      /\ result' = Raised(grouped_df.raised)
                 ELSE /\ records' = copy_and_assign(records, input, Object("frame", grouped_df.value))
                      /\ result' = Returned(Len(records) + 1)
    /\ UNCHANGED <<header, key>>

\* TicketStatusHelper.build_resolved_mask on one of the record sets
BuildResolvedMaskCall ==
    /\ Len(records) < MaxObjects
    /\ \E input \in Positions("frame") :
          LET mask == build_resolved_mask(RESOLVED_STATES, records[input].value)
          IN  /\ call' = [op |-> "build_resolved_mask", input |-> input, arg |-> None]
              /\ IF mask.raised # ""
                 THEN /\ records' = records
                      /\ result' = Raised(mask.raised)
                 ELSE /\ records' = Append(records, Object("mask", mask.value))
                      /\ result' = Returned(Len(records) + 1)
    /\ UNCHANGED <<header, key>>

\* TableBuilder.build_pivot_table on one of the record sets
BuildPivotTableCall ==
    /\ Len(records) < MaxObjects
    /\ \E input \in Positions("frame") :
          /\ call' = [op |-> "build_pivot_table", input |-> input, arg |-> None]
          /\ records' = Append(records,
                 Object("pivot", build_pivot_table(records[input].value, "Estado de resolucion",
                                                   "Sin estado de resolución")))
          /\ result' = Returned(Len(records) + 1)
    /\ UNCHANGED <<header, key>>

\* TableBuilder.add_sla_percentage_row on one of the pivots
AddSlaPercentageRowCall ==
    /\ Len(records) < MaxObjects
    /\ \E input \in Positions("pivot") :
          /\ call' = [op |-> "add_sla_percentage_row", input |-> input, arg |-> None]
          /\ records' = copy_and_assign(records, input,
                 Object("pivot", add_sla_percentage_row(records[input].value)))
          /\ result' = Returned(Len(records) + 1)
    /\ UNCHANGED <<header, key>>

NextObjects ==
    \/ FilterCall
    \/ BuildEstadoGroupedCall
    \/ BuildResolvedMaskCall
    \/ BuildPivotTableCall
    \/ AddSlaPercentageRowCall

SpecObjects == InitObjects /\ [][NextObjects]_vars

\* every table that exists before the call is the same after it
TablesKept ==
    /\ Len(records') >= Len(records)
    /\ \A i \in DOMAIN records : records'[i] = records[i]

\* the call at hand is a filter given nothing to select on: no year, an
\* empty list, no client, '' or 'Todos'
NothingToSelect(c) ==
    /\ c.op \in Range(PairOps) \ {"filter_production_environment"}
    /\ \/ c.arg.type = "NoneType"
       \/ c.arg.type = "list" /\ c.arg.value = <<>>
       \/ c.arg.type = "str" /\ c.arg.value[1] \in {"", "Todos"}

NoneText == "#None"

NoCharts == <<"#None">>

NoBytes == [format |-> "none", tables |-> <<>>, charts |-> NoCharts, filters_text |-> ""]

Idle == <<"idle">>
Rerun == <<"rerun">>

DashboardName == "Soporte"

\* cache.get(k) with the value read for a missing key
get(cache, k, default) == IF k \in DOMAIN cache THEN cache[k] ELSE default

\* cache[k] = v
put(cache, k, v) == (k :> v) @@ cache

\* cache.setdefault(k, v)
setdefault(cache, k, v) == IF k \in DOMAIN cache THEN cache ELSE put(cache, k, v)

RECURSIVE join_from(_, _, _)
join_from(sep, xs, i) ==
    IF i > Len(xs) THEN ""
    ELSE IF i = Len(xs) THEN xs[i]
    ELSE xs[i] \o sep \o join_from(sep, xs, i + 1)

\* sep.join(xs)
str_join(sep, xs) == join_from(sep, xs, 1)

\* the tickets behind the tables of the export
ExportTickets ==
    <<[grupo |-> "Acme", year |-> 2024], [grupo |-> "Acme", year |-> 2024],
      [grupo |-> "Beta", year |-> 2023]>>

\* the values of the filter widgets
ExportYears == {None, IntValue(2023), IntValue(2024)}
ExportClients == {<<>>, <<"Acme">>, <<"Beta">>, <<"Acme", "Beta">>}

\* export_tables of render_dashboard: the tables of the sections that had
\* data, here the tickets per client of the selection
export_tables_of(widgets) ==
    LET shown == SelectSeq(ExportTickets, LAMBDA t :
                     /\ widgets.selected_year = None \/ t.year = widgets.selected_year.value
                     /\ widgets.selected_client = <<>> \/ t.grupo \in Range(widgets.selected_client))
        clients == sorted({shown[i].grupo : i \in DOMAIN shown})
    IN  IF shown = <<>> THEN <<>>
        ELSE <<[name |-> "Clientes",
                index |-> clients,
                cells |-> [i \in DOMAIN clients |->
                              Cardinality({j \in DOMAIN shown : shown[j].grupo = clients[i]})]]>>

\* self._export_charts: the figure of every table rendered
export_charts_of(widgets) ==
    [i \in DOMAIN export_tables_of(widgets) |-> export_tables_of(widgets)[i].name]

\* the labels of _render_export_section (ExportStateManager.build_filter_labels)
build_filter_labels(selected_year, selected_client, selected_team, selected_criticidad) ==
    [year |-> IF selected_year = None THEN "Todos" ELSE ToString(selected_year.value),
     client |-> IF selected_client = <<>> THEN "Todos" ELSE str_join(", ", selected_client),
     team |-> IF selected_team = <<>> THEN "Todos" ELSE str_join(", ", selected_team),
     criticidad |-> IF selected_criticidad = <<>> THEN "Todas"
                    ELSE str_join(", ", selected_criticidad)]

build_filters_text(dashboard_name, labels) ==
    "Dashboard: " \o dashboard_name \o " | Año: " \o labels.year \o " | Cliente: "
    \o labels.client \o " | Team Asignado: " \o labels.team \o " | Criticidad: "
    \o labels.criticidad

\* the signatures of the export context: labels, number of tables, the
\* chart switch, per table its name, shape and numeric sum, per chart its name
build_signatures(export_tables, chart_payload, labels) ==
    LET include_charts == chart_payload # NoCharts
        table_parts == [i \in DOMAIN export_tables |->
            export_tables[i].name \o "|" \o ToString(Len(export_tables[i].index))
            \o "|1|" \o ToString(sum_seq(export_tables[i].cells)) \o ".00"]
        chart_parts == IF include_charts
                       THEN <<"charts_count=" \o ToString(Len(chart_payload))>>
                            \o [i \in DOMAIN chart_payload |->
                                   "chart=" \o chart_payload[i] \o "|fig=1"]
                       ELSE <<>>
        export_signature ==
            str_join("||", <<labels.year, labels.client, labels.team, labels.criticidad,
                             ToString(Len(export_tables)),
                             "include_charts=" \o (IF include_charts THEN "1" ELSE "0")>>
                           \o table_parts \o chart_parts)
    IN  <<export_signature \o "||format=excel||v=2", export_signature \o "||format=pdf||v=2">>

\* the signatures stored, the bytes of an earlier signature kept
store_signature_keep_bytes(cache, excel_signature, pdf_signature) ==
    put(put(cache, "excel_signature", excel_signature), "pdf_signature", pdf_signature)

\* ExportStateManager.reset_cache_if_signature_changed
reset_cache_if_signature_changed(cache, excel_signature, pdf_signature) ==
    LET excel == IF get(cache, "excel_signature", NoneText) # excel_signature
                 THEN put(put(cache, "excel_signature", excel_signature), "excel_bytes", NoBytes)
                 ELSE cache
    IN  IF get(excel, "pdf_signature", NoneText) # pdf_signature
        THEN put(put(excel, "pdf_signature", pdf_signature), "pdf_bytes", NoBytes)
        ELSE excel

is_excel_ready(cache, excel_signature) ==
    /\ get(cache, "excel_bytes", NoBytes) # NoBytes
    /\ get(cache, "excel_signature", NoneText) = excel_signature

is_pdf_ready(cache, pdf_signature) ==
    /\ get(cache, "pdf_bytes", NoBytes) # NoBytes
    /\ get(cache, "pdf_signature", NoneText) = pdf_signature

\* ExportStateManager.ensure_cache
ensure_cache(cache) == setdefault(setdefault(cache, "busy", FALSE), "pending_action", NoneText)

\* ExportBuilder.build_excel_bytes and build_pdf_bytes: the file of these
\* tables and charts
build_excel_bytes(export_tables, charts) ==
    [format |-> "excel", tables |-> export_tables, charts |-> charts, filters_text |-> ""]

build_pdf_bytes(export_tables, filters_text, charts) ==
    [format |-> "pdf", tables |-> export_tables, charts |-> charts, filters_text |-> filters_text]

\* the flags left as the request set them
finally_skipped(cache) == cache

\* finally: cache["busy"] = False; cache["pending_action"] = None
finally_reset(cache) == put(put(cache, "busy", FALSE), "pending_action", NoneText)

\* the values the filter widgets and the chart toggle can have
WidgetValues ==
    [selected_year : ExportYears, selected_client : ExportClients, include_charts : BOOLEAN]

\* the tables, the charts, the filter text and the signatures that
\* _render_export_section has at hand under each of the widget values
EXPORT_CONTEXTS ==
    {LET export_tables == export_tables_of(widgets)
         labels == build_filter_labels(widgets.selected_year, widgets.selected_client,
                                       <<>>, <<>>)
         chart_payload == IF widgets.include_charts THEN export_charts_of(widgets)
                          ELSE NoCharts
     IN  [widgets |-> widgets,
          export_tables |-> export_tables,
          chart_payload |-> chart_payload,
          filters_text |-> build_filters_text(DashboardName, labels),
          signatures |-> build_signatures(export_tables, chart_payload, labels)] :
     widgets \in WidgetValues}

export_context(widgets) == CHOOSE context \in EXPORT_CONTEXTS : context.widgets = widgets

\* what a render displays of the export section
Display(shown, is_busy, excel_ready, pdf_ready, processed, outcome) ==
    [kind |-> "export", shown |-> shown, is_busy |-> is_busy,
     excel_ready |-> excel_ready, pdf_ready |-> pdf_ready,
     processed |-> processed,
     builds |-> IF processed = "" THEN 0 ELSE 1,
     hint |-> processed # "" /\ outcome = "ImportError",
     raised |-> IF processed # "" /\ outcome \notin {"ok", "ImportError"} THEN outcome ELSE ""]

\* a click on 'Preparar Excel' or 'Preparar PDF': busy and the pending format
request_export(checked, format) == put(put(checked, "busy", TRUE), "pending_action", format)

\* the pending block: the build of the pending format, then finally
process_pending(checked, context, pending_action, outcome) ==
    finally_reset(
        IF outcome # "ok" THEN checked
        ELSE IF pending_action = "excel"
        THEN put(checked, "excel_bytes",
                 build_excel_bytes(context.export_tables, context.chart_payload))
        ELSE put(checked, "pdf_bytes",
                 build_pdf_bytes(context.export_tables, context.filters_text,
                                 context.chart_payload)))

\* the two columns of buttons and the pending block, readiness evaluated
render_export_buttons(checked, is_busy, excel_ready, pdf_ready, context, clicked, outcome) ==
    IF ~excel_ready /\ clicked = "excel" /\ ~is_busy
    THEN [cache |-> request_export(checked, "excel"), rerun |-> TRUE,
          ui |-> Display(TRUE, is_busy, excel_ready, FALSE, "", "")]
    ELSE IF ~pdf_ready /\ clicked = "pdf" /\ ~is_busy
    THEN [cache |-> request_export(checked, "pdf"), rerun |-> TRUE,
          ui |-> Display(TRUE, is_busy, excel_ready, pdf_ready, "", "")]
    ELSE IF checked["busy"] /\ checked["pending_action"] \in {"excel", "pdf"}
    THEN [cache |-> process_pending(checked, context, checked["pending_action"], outcome),
          rerun |-> outcome \in {"ok", "ImportError"},
          ui |-> Display(TRUE, is_busy, excel_ready, pdf_ready,
                         checked["pending_action"], outcome)]
    ELSE [cache |-> checked, rerun |-> FALSE,
          ui |-> Display(TRUE, is_busy, excel_ready, pdf_ready, "", "")]

\* the section once the signatures of the render are compared with the
\* stored ones
render_export_checked(checked, is_busy, context, clicked, outcome) ==
    render_export_buttons(checked, is_busy,
                          is_excel_ready(checked, context.signatures[1]),
                          is_pdf_ready(checked, context.signatures[2]),
                          context, clicked, outcome)

\* DashboardOrchestrator._render_export_section in a render in which the
\* button 'clicked' (if any) was pressed and the build (if any) ends in
\* 'outcome': the cache after it, what it displayed, and whether it ended
\* in st.rerun()
render_export_section(cache, context, clicked, outcome) ==
    IF context.export_tables = <<>>
    THEN [cache |-> cache, rerun |-> FALSE,
          ui |-> Display(FALSE, FALSE, FALSE, FALSE, "", "")]
    ELSE render_export_checked(
             reset_cache_if_signature_changed(ensure_cache(cache), context.signatures[1],
                                              context.signatures[2]),
             ensure_cache(cache)["busy"], context, clicked, outcome)

\* how a build ends: with the bytes, without an optional dependency, or
\* with any other exception
BuildOutcomes == {"ok", "ImportError", "ValueError"}

\* the session before its first render
InitExport ==
    /\ header = [selected_year |-> None, selected_client |-> <<>>, include_charts |-> FALSE]
    /\ key = Rerun
    /\ records = <<>>
    /\ call = NoCall
    /\ result = NoResult

\* the render with the cache, the widget values and the click at hand
Shown(event, widgets, clicked, r) ==
    /\ header' = widgets
    /\ records' = r.cache
    /\ key' = IF r.rerun THEN Rerun ELSE Idle
    /\ call' = [op |-> event, clicked |-> clicked]
    /\ result' = r.ui

Rendered(event, widgets, clicked, outcome) ==
    Shown(event, widgets, clicked,
          render_export_section(records, export_context(widgets), clicked, outcome))

\* the user changes a filter widget: Streamlit runs the script again
ChangeFilter ==
    /\ key = Idle
    /\ \E year \in ExportYears, client \in ExportClients :
          /\ <<year, client>> # <<header.selected_year, header.selected_client>>
          /\ Rendered("change_filter",
                      [header EXCEPT !.selected_year = year, !.selected_client = client],
                      "", "ok")

\* the user flips the chart toggle, which is disabled while an export is busy
ToggleCharts ==
    /\ key = Idle
    /\ result.shown /\ ~result.is_busy
    /\ Rendered("toggle_charts", [header EXCEPT !.include_charts = ~@], "", "ok")

\* the user presses 'Preparar Excel' or 'Preparar PDF', shown and enabled
\* in the render before
ClickPrepare ==
    /\ key = Idle
    /\ result.shown /\ ~result.is_busy
    /\ \E format \in {"excel", "pdf"} :
          /\ format = "excel" => ~result.excel_ready
          /\ format = "pdf" => ~result.pdf_ready
          /\ Rendered("click_prepare", header, format, "ok")

\* the render st.rerun() has asked for, the first render of the session too
RenderAgain ==
    /\ key = Rerun
    /\ \E outcome \in BuildOutcomes : Rendered("rerun", header, "", outcome)

NextExport == ChangeFilter \/ ToggleCharts \/ ClickPrepare \/ RenderAgain

SpecExport == InitExport /\ [][NextExport]_vars

\* st.rerun() ends the script run and Streamlit starts the next at once
SpecExportRerun == SpecExport /\ WF_vars(RenderAgain)

Busy == get(records, "busy", FALSE)

PendingAction == get(records, "pending_action", NoneText)

\* an export is requested
Requested == Busy /\ PendingAction \in {"excel", "pdf"}

\* the bytes cached for a format
CachedBytes(cache, format) ==
    get(cache, IF format = "excel" THEN "excel_bytes" ELSE "pdf_bytes", NoBytes)

\* the render after a request runs the build of the pending format once and
\* leaves busy false and pending_action None; without the optional
\* dependency nothing is cached, the hint is shown and nothing is raised
NextRenderProcesses ==
    Requested =>
        /\ call'.op = "rerun"
        /\ result'.shown /\ result'.processed = PendingAction /\ result'.builds = 1
        /\ ~Busy' /\ PendingAction' = NoneText
        /\ result'.hint => (CachedBytes(records', PendingAction) = NoBytes /\ result'.raised = "")
        /\ result'.raised # "" => CachedBytes(records', PendingAction) = NoBytes
        /\ (~result'.hint /\ result'.raised = "") => CachedBytes(records', PendingAction) # NoBytes

\* C25: once an export is requested (busy, pending_action 'excel' or 'pdf')
\* the next render runs that build exactly once and then sets busy to false
\* and pending_action to None, whether the build succeeds, raises
\* ImportError or raises anything else; on ImportError no bytes are cached,
\* the hint is shown and nothing is raised. busy is never true at the end
\* of a render that processed a pending action, and every request is
\* followed by a state that is not busy.
C25_RequestedExportIsProcessedOnce ==
    /\ [][NextRenderProcesses]_vars
    /\ []((result.kind = "export" /\ result.processed # "") => ~Busy)
    /\ (Requested ~> ~Busy)

\* the render after 'Preparar PDF' found the optional dependency missing:
\* the hint is shown, nothing is cached, the cache is not busy
C25_Witness ==
    /\ call.op = "rerun"
    /\ result.processed = "pdf" /\ result.hint /\ result.builds = 1
    /\ ~Busy /\ PendingAction = NoneText
    /\ CachedBytes(records, "pdf") = NoBytes

\* the export context of the widget values at hand
CurrentTables == export_context(header).export_tables
CurrentCharts == export_context(header).chart_payload
CurrentSignatures == export_context(header).signatures

\* the bytes of a download offered are those of the tables, charts and
\* labels on display, under the signature stored
OfferedBytesAreCurrent ==
    (result.kind = "export" /\ result.shown) =>
        /\ result.excel_ready =>
              /\ records["excel_signature"] = CurrentSignatures[1]
              /\ records["excel_bytes"] = build_excel_bytes(CurrentTables, CurrentCharts)
        /\ result.pdf_ready =>
              /\ records["pdf_signature"] = CurrentSignatures[2]
              /\ records["pdf_bytes"] =
                     build_pdf_bytes(CurrentTables, export_context(header).filters_text,
                                     CurrentCharts)

\* the bytes of a format are dropped only in a render that finds another
\* signature stored for that format, and a build leaves the bytes of the
\* other format alone
EntriesInvalidatedAlone ==
    \A format \in {"excel", "pdf"} :
        LET signature_key == IF format = "excel" THEN "excel_signature" ELSE "pdf_signature"
        IN  /\ (CachedBytes(records, format) # NoBytes /\ CachedBytes(records', format) = NoBytes)
                  => get(records, signature_key, NoneText) # get(records', signature_key, NoneText)
            /\ (result'.processed # "" /\ result'.processed # format
                /\ get(records, signature_key, NoneText) = get(records', signature_key, NoneText))
                  => CachedBytes(records', format) = CachedBytes(records, format)

\* C28: whenever a download is offered the cached bytes were built under
\* the signature of the render at hand; a render that finds another
\* signature stored drops the bytes before readiness is evaluated, so bytes
\* built for an earlier selection are never offered; the excel and the pdf
\* entry are invalidated each on its own signature.
C28_OfferedBytesMatchSignature ==
    /\ []OfferedBytesAreCurrent
    /\ [][EntriesInvalidatedAlone]_vars

\* the Excel download is offered after the selection was changed and
\* changed back, while the PDF is not prepared
C28_Witness ==
    /\ call.op = "change_filter"
    /\ result.shown /\ result.excel_ready /\ ~result.pdf_ready
    /\ header.selected_client = <<"Acme">>
    /\ records["excel_bytes"].tables = CurrentTables


-----------------------------------------------------------------------------
\* TicketAnalysisApp.run: the upload session

MaxUploaderKey == 3

\* the contents of the files a user can put into the two uploaders, an
\* empty file among them
ReportFiles == {"", "report.xlsx"}
LoginsFiles == {"", "logins.xlsx"}

\* the two file uploaders with nothing selected
NoFiles == [report_file |-> NoneText, logins_file |-> NoneText]

\* st.session_state.pop(k, None)
pop(state, k) == [j \in DOMAIN state \ {k} |-> state[j]]

\* not value, of bytes or None
falsy(value) == value \in {NoneText, ""}

\* processed = True with the report alone stored
store_report_only(state, widgets) ==
    put(put(state, "report_bytes", widgets.report_file), "processed", TRUE)

\* the two blobs stored, then processed = True
store_uploads(state, widgets) ==
    put(put(put(state, "report_bytes", widgets.report_file),
            "logins_bytes", widgets.logins_file),
        "processed", TRUE)

\* 'Cambiar archivos'
change_files(state) ==
    pop(pop(put(put(state, "processed", FALSE), "uploader_key", state["uploader_key"] + 1),
            "report_bytes"),
        "logins_bytes")

\* what a run of the script displays
Page(uploaders, can_process, message, pipeline, loaded) ==
    [kind |-> "upload", uploaders |-> uploaders, can_process |-> can_process,
     message |-> message, pipeline |-> pipeline, loaded |-> loaded]

\* the end of run: the blobs read back from the session and, when both are
\* there and not empty, load, validate_and_standardize, preprocess and the
\* two dashboards
load_and_render(state, widgets, uploaders, can_process, message) ==
    LET report_bytes == get(state, "report_bytes", NoneText)
        logins_bytes == get(state, "logins_bytes", NoneText)
    IN  IF falsy(report_bytes) \/ falsy(logins_bytes)
        THEN [session_state |-> state, widgets |-> widgets, rerun |-> FALSE,
              ui |-> Page(uploaders, can_process, "No se encontraron archivos", FALSE, <<>>)]
        ELSE [session_state |-> state, widgets |-> widgets, rerun |-> FALSE,
              ui |-> Page(uploaders, can_process, message, TRUE,
                          <<logins_bytes, report_bytes>>)]

\* TicketAnalysisApp.run with the session, the files in the uploaders and
\* the button pressed (if any): the session after it, the uploaders'
\* values kept by Streamlit, whether it ended in st.rerun(), what it showed
run(session_state, widgets, clicked) ==
    LET state == setdefault(setdefault(session_state, "processed", FALSE), "uploader_key", 0)
        can_process == widgets.report_file # NoneText /\ widgets.logins_file # NoneText
    IN  IF state["processed"]
        THEN IF clicked = "Cambiar archivos"
             THEN [session_state |-> change_files(state), widgets |-> NoFiles, rerun |-> TRUE,
                   ui |-> Page(FALSE, FALSE, "Archivos procesados.", FALSE, <<>>)]
             ELSE load_and_render(state, NoFiles, FALSE, FALSE, "Archivos procesados.")
        ELSE IF clicked = "Procesar informacion"
             THEN [session_state |-> store_uploads(state, widgets), widgets |-> widgets,
                   rerun |-> TRUE, ui |-> Page(TRUE, can_process, "", FALSE, <<>>)]
        ELSE IF ~can_process
             THEN [session_state |-> state, widgets |-> widgets, rerun |-> FALSE,
                   ui |-> Page(TRUE, can_process, "Carga ambos archivos", FALSE, <<>>)]
        ELSE IF ~state["processed"]
             THEN [session_state |-> state, widgets |-> widgets, rerun |-> FALSE,
                   ui |-> Page(TRUE, can_process, "Haz clic en 'Procesar informacion'",
                               FALSE, <<>>)]
        ELSE load_and_render(state, widgets, TRUE, can_process, "")

\* a new browser session: nothing in st.session_state, nothing uploaded,
\* the first run of the script due
InitUpload ==
    /\ header = NoFiles
    /\ key = Rerun
    /\ records = <<>>
    /\ call = NoCall
    /\ result = NoResult

\* one run of the script
Ran(event, widgets, clicked) ==
    LET r == run(records, widgets, clicked)
    IN  /\ header' = r.widgets
        /\ records' = r.session_state
        /\ key' = IF r.rerun THEN Rerun ELSE Idle
        /\ call' = [op |-> event, clicked |-> clicked]
        /\ result' = r.ui

\* the user puts a file into, or takes it out of, the report uploader
SelectReportFile ==
    /\ key = Idle
    /\ result.uploaders
    /\ \E file \in ReportFiles \cup {NoneText} :
          /\ file # header.report_file
          /\ Ran("select_report", [header EXCEPT !.report_file = file], "")

\* the same on the logins uploader
SelectLoginsFile ==
    /\ key = Idle
    /\ result.uploaders
    /\ \E file \in LoginsFiles \cup {NoneText} :
          /\ file # header.logins_file
          /\ Ran("select_logins", [header EXCEPT !.logins_file = file], "")

\* the user presses 'Procesar informacion', enabled in the run before
ClickProcesar ==
    /\ key = Idle
    /\ result.uploaders /\ result.can_process
    /\ Ran("click_procesar", header, "Procesar informacion")

\* the user presses 'Cambiar archivos', shown once the files are processed
ClickCambiar ==
    /\ key = Idle
    /\ ~result.uploaders
    /\ records["uploader_key"] < MaxUploaderKey
    /\ Ran("click_cambiar", header, "Cambiar archivos")

\* the user touches a widget of a dashboard: the script runs again
TouchDashboard ==
    /\ key = Idle
    /\ result.pipeline
    /\ Ran("touch_dashboard", header, "")

\* the run st.rerun() has asked for, the first run of the session too
RunAgain ==
    /\ key = Rerun
    /\ Ran("rerun", header, "")

NextUpload ==
    \/ SelectReportFile
    \/ SelectLoginsFile
    \/ ClickProcesar
    \/ ClickCambiar
    \/ TouchDashboard
    \/ RunAgain

SpecUpload == InitUpload /\ [][NextUpload]_vars

Processed == get(records, "processed", FALSE)

UploaderKey == get(records, "uploader_key", 0)

BothStored == {"report_bytes", "logins_bytes"} \subseteq DOMAIN records

\* processed is true only with both blobs stored, and the pipeline ran in
\* the last run only on two blobs that are there and not empty
ProcessedHasBothBlobs ==
    /\ Processed => BothStored
    /\ (result.kind = "upload" /\ result.pipeline) =>
          /\ BothStored
          /\ records["report_bytes"] # "" /\ records["logins_bytes"] # ""
          /\ result.loaded = <<records["logins_bytes"], records["report_bytes"]>>

\* processed turns true only in the run that stores the two files of the
\* uploaders; 'Cambiar archivos' clears processed, drops both blobs and
\* adds one to uploader_key; no other run changes uploader_key
UploadStep ==
    /\ (~Processed /\ Processed') =>
          /\ call'.op = "click_procesar"
          /\ records'["report_bytes"] = header.report_file
          /\ records'["logins_bytes"] = header.logins_file
    /\ call'.op = "click_cambiar" =>
          /\ Processed /\ ~Processed'
          /\ "report_bytes" \notin DOMAIN records' /\ "logins_bytes" \notin DOMAIN records'
          /\ UploaderKey' = UploaderKey + 1
    /\ call'.op # "click_cambiar" => UploaderKey' = UploaderKey
    /\ UploaderKey' >= UploaderKey

\* C29: processed becomes true only in the step that stores both
\* report_bytes and logins_bytes, so processed implies both are stored;
\* 'Cambiar archivos' sets processed to false, removes both blobs and
\* increases uploader_key by exactly one; uploader_key never decreases; the
\* load, validate, preprocess pipeline runs in a render only if both blobs
\* are present and non-empty.
C29_UploadSessionStateMachine ==
    /\ []ProcessedHasBothBlobs
    /\ [][UploadStep]_vars

\* after a change of files two new files were processed and the pipeline
\* ran on them
C29_Witness ==
    /\ UploaderKey = 1
    /\ Processed /\ BothStored
    /\ result.kind = "upload" /\ result.pipeline
    /\ result.loaded = <<"logins.xlsx", "report.xlsx">>


-----------------------------------------------------------------------------
\* SlaSectionsRenderer.render_sla_criticidad_section

STATUS_ORDER_MAP == ("Incumplido" :> 0) @@ ("Cumplido" :> 1)

PRIORITY_ORDER_MAP ==
    [k \in {"urgente", "urgent", "alta", "high", "media", "medium", "baja", "low"} |->
        CASE k \in {"urgente", "urgent"} -> 0
          [] k \in {"alta", "high"} -> 1
          [] k \in {"media", "medium"} -> 2
          [] OTHER -> 3]

EXPECTED_PRIORITIES == <<"Urgente", "Alta", "Media", "Baja">>

\* f"{status} - {priority}" for status in [Incumplido, Cumplido]
\*                          for priority in expected_priorities
expected_labels ==
    [i \in 1..(2 * Len(EXPECTED_PRIORITIES)) |->
        (IF i <= Len(EXPECTED_PRIORITIES) THEN "Incumplido" ELSE "Cumplido") \o " - "
        \o EXPECTED_PRIORITIES[((i - 1) % Len(EXPECTED_PRIORITIES)) + 1]]

\* build_zero_pivot
build_zero_pivot ==
    LET columns == MONTH_NAMES_ES \o <<"Total">>
    IN  Table(expected_labels, columns,
              [l \in Range(expected_labels) |-> [c \in Range(columns) |-> 0]])

\* label.split(" - "): where the first separator starts, 0 when there is none
first_separator(label) ==
    LET cs == Chars(label)
        found == {i \in 1..Len(label) : MatchAt(cs, i, Chars(" - "))}
    IN  IF found = {} THEN 0 ELSE CHOOSE i \in found : \A j \in found : i <= j

\* labels.str.split(" - ").str[0].str.strip()
status_part(label) ==
    LET at == first_separator(label)
    IN  strip(IF at = 0 THEN label ELSE SubSeq(label, 1, at - 1))

\* labels.str.split(" - ").str[1:].str.join(" - ").str.strip()
priority_part(label) ==
    LET at == first_separator(label)
    IN  strip(IF at = 0 THEN "" ELSE SubSeq(label, at + 3, Len(label)))

\* dashboard_domain.map_priority_sort on one label
map_priority_sort(priority_label) ==
    LET k == lower(strip(astype_str(priority_label)))
    IN  IF k \in DOMAIN PRIORITY_ORDER_MAP THEN PRIORITY_ORDER_MAP[k] ELSE 99

\* the sort key of a row label: _status_sort, _priority_sort, _tie
sort_key(label) ==
    [status |-> IF status_part(label) \in DOMAIN STATUS_ORDER_MAP
                THEN STATUS_ORDER_MAP[status_part(label)] ELSE 99,
     priority |-> map_priority_sort(priority_part(label)),
     tie |-> lower(strip(label))]

key_less(a, b) ==
    \/ a.status < b.status
    \/ a.status = b.status /\ a.priority < b.priority
    \/ a.status = b.status /\ a.priority = b.priority /\ str_less(a.tie, b.tie)

\* the labels with the three sort columns assign() adds
RECURSIVE assign_sort_keys(_)
assign_sort_keys(labels) ==
    IF Len(labels) = 0 THEN <<>>
    ELSE <<[label |-> Head(labels), sort |-> sort_key(Head(labels))]>>
         \o assign_sort_keys(Tail(labels))

\* the rows in ascending order of their keys, equal keys in their order
RECURSIVE sort_rows(_)
sort_rows(rows) ==
    IF Len(rows) = 0 THEN <<>>
    ELSE LET first == CHOOSE i \in DOMAIN rows :
                          /\ \A j \in DOMAIN rows : ~key_less(rows[j].sort, rows[i].sort)
                          /\ \A j \in 1..(i - 1) : key_less(rows[i].sort, rows[j].sort)
         IN  <<rows[first].label>>
             \o sort_rows(SubSeq(rows, 1, first - 1) \o SubSeq(rows, first + 1, Len(rows)))

\* DataFrame.sort_values(by=[_status_sort, _priority_sort, _tie]) on the index
sort_values(labels) == sort_rows(assign_sort_keys(labels))

\* the rows of a table in the order and under the labels given
select_rows(t, index) == Table(index, t.columns, [l \in Range(index) |-> t.data[l]])

\* pd.concat([pivot_body, pd.DataFrame(0, index=missing_labels, columns=...)])
concat_zero_rows(t, missing_labels) ==
    Table(t.index \o missing_labels, t.columns,
          [l \in Range(t.index) \cup Range(missing_labels) |->
              IF l \in Range(t.index) THEN t.data[l] ELSE [c \in Range(t.columns) |-> 0]])

\* the body of one year's table: the pivot without its Total row and without
\* 'sin criticidad' labels, the missing labels added with zeros, sorted
criticidad_pivot_body(pivot) ==
    LET without_total == select_rows(pivot, SelectSeq(pivot.index, LAMBDA l : l # "Total"))
        kept == select_rows(without_total,
                            SelectSeq(without_total.index,
                                      LAMBDA l : ~contains(lower(astype_str(l)), "sin criticidad")))
        missing_labels == SelectSeq(expected_labels, LAMBDA l : l \notin Range(kept.index))
        completed == concat_zero_rows(kept, missing_labels)
    IN  select_rows(completed, sort_values(completed.index))

\* one pass of the loop of render_sla_criticidad_section
sla_criticidad_year_table(base_filtered, year) ==
    LET sla_prod == sla_records(base_filtered, year)
        normalized == normalize_resolution_status_for_display(
                          column(sla_prod, "Estado de resolucion"))
        with_estado == with_column(sla_prod, "SLA Estado", normalized.value)
        sla_only == SelectSeq(with_estado,
                              LAMBDA r : isin(r["SLA Estado"], <<"Cumplido", "Incumplido">>))
        with_prioridad == with_column(sla_only, "Prioridad ES",
                                      normalize_priority_labels(column(sla_only, "Prioridad")))
        valid == SelectSeq(with_prioridad, LAMBDA r : r["Prioridad ES"] # "Sin criticidad")
        labelled == [i \in DOMAIN valid |->
                        [valid[i] EXCEPT !["Mes"] = valid[i]["Hora de resolucion"].month]
                        @@ ("SLA Criticidad" :>
                               strip(astype_str(valid[i]["SLA Estado"])) \o " - "
                               \o strip(astype_str(valid[i]["Prioridad ES"])))]
        pivot == build_pivot_table(labelled, "SLA Criticidad", "Sin criticidad")
    IN  IF sla_prod = <<>> THEN YearTable(year, build_zero_pivot)
        ELSE IF normalized.raised # "" THEN Raised(normalized.raised)
        ELSE IF sla_only = <<>> THEN YearTable(year, build_zero_pivot)
        ELSE IF valid = <<>> THEN YearTable(year, build_zero_pivot)
        ELSE YearTable(year, criticidad_pivot_body(pivot))

\* SlaSectionsRenderer.render_sla_criticidad_section
render_sla_criticidad_section(base_filtered, selected_year, today) ==
    LET years == resolve_comparison_years(selected_year, today)
        year_tables == [i \in DOMAIN years |-> sla_criticidad_year_table(base_filtered, years[i])]
    IN  IF \E i \in DOMAIN years : year_tables[i].kind = "raised"
        THEN year_tables[CHOOSE i \in DOMAIN years :
                            /\ year_tables[i].kind = "raised"
                            /\ \A j \in 1..(i - 1) : year_tables[j].kind # "raised"]
        ELSE stacked(year_tables)

\* resolved production tickets of every SLA status and priority, in English
\* and Spanish, next to tickets the section leaves out: an unknown or null
\* priority, a status outside the SLA, QA, unresolved, a null SLA status
CriticidadRows ==
    {Row("A", "Acme", "Dev", "Incidencia", "prod", "Resuelto", "Within SLA", "Alta", Dec2023, Jan2024),
     Row("A", "Acme", "Dev", "Incidencia", "prod", "Resuelto", "Within SLA", "Alta", Jan2024, Jan2024),
     Row("B", "Acme", "Dev", "Consulta", "prod", "Resuelto", "SLA Violated", "urgent", Jan2024, Feb2024),
     Row("C", "Beta", "Dev", "Incidencia", "Producción", "Cerrado", "Incumplido", "Media", Dec2023, Dec2023),
     Row("D", "Beta", "Dev", "Incidencia", "prod", "Resuelto", "Cumplido", "Critical", Jan2024, Jan2024),
     Row("E", "Beta", "Dev", "Incidencia", "prod", "Resuelto", "resolved", "Baja", Jan2024, Jan2024),
     Row("F", "Acme", "Dev", "Incidencia", "prod", "Resuelto", NA, "Alta", Jan2024, Feb2024),
     Row("G", "Acme", "Dev", "Incidencia", "QA", "Resuelto", "Within SLA", "Baja", Jan2024, Jan2024),
     Row("H", "Acme", "Dev", "Incidencia", "prod", "Resuelto", "SLA Violated", NA, Jan2024, Jan2024),
     Row("J", "Beta", "Dev", "Consulta", "prod", "Abierto", "Within SLA", "Low", Jan2024, NaT)}

InitCriticidad ==
    /\ header = <<>>
    /\ key = NoText
    /\ records = <<>>
    /\ call = NoCall
    /\ result = NoResult

LoadCriticidadRow == LoadRow(CriticidadRows)

RenderSlaCriticidadSection ==
    /\ call = NoCall
    /\ \E selected_year \in SelectedYears, today \in TodayYears :
          /\ call' = [op |-> "render_sla_criticidad_section",
                      years |-> resolve_comparison_years(selected_year, today)]
          /\ result' = render_sla_criticidad_section(records, selected_year, today)
    /\ UNCHANGED <<header, key, records>>

NextCriticidad == LoadCriticidadRow \/ RenderSlaCriticidadSection

SpecCriticidad == InitCriticidad /\ [][NextCriticidad]_vars

\* the tickets of a year counted under a label in a month: resolved in the
\* year, in production, with that SLA status and that priority
LabelTickets(year, status, priority, m) ==
    LET sla_prod == sla_records(records, year)
    IN  {r["ID del ticket"] : r \in {x \in Range(sla_prod) :
            /\ x["Hora de resolucion"].month = m
            /\ resolution_label(strip(x["Estado de resolucion"])) = status
            /\ normalize_priority_labels(<<x["Prioridad"]>>)[1] = priority}} \ {NA}

\* the eight labels in the order of the section
EightLabels ==
    <<"Incumplido - Urgente", "Incumplido - Alta", "Incumplido - Media", "Incumplido - Baja",
      "Cumplido - Urgente", "Cumplido - Alta", "Cumplido - Media", "Cumplido - Baja">>

\* the tables shown have the eight rows in order, each cell the number of
\* tickets of its status, priority and month
EightRowsPerYear ==
    /\ [k \in DOMAIN result.tables |-> result.tables[k].year] = call.years
    /\ \A k \in DOMAIN result.tables :
          LET t == result.tables[k].table
          IN  /\ t.index = EightLabels
              /\ \A status \in {"Incumplido", "Cumplido"}, i \in DOMAIN EXPECTED_PRIORITIES,
                       m \in DOMAIN MONTH_NAMES_ES :
                    t.data[status \o " - " \o EXPECTED_PRIORITIES[i]][MONTH_NAMES_ES[m]]
                        = Cardinality(LabelTickets(result.tables[k].year, status,
                                                   EXPECTED_PRIORITIES[i], m))

\* C30: render_sla_criticidad_section gives for each year of the window
\* exactly eight body rows '<status> - <priority>', the four Incumplido rows
\* first and then the four Cumplido rows, each group in the order Urgente,
\* Alta, Media, Baja, with an all-zero row for every combination absent from
\* the data and an all-zero table when the year has no data; no row for
\* 'Sin criticidad' or for any other resolution status appears.
C30_EightRowsPerYear ==
    call.op = "render_sla_criticidad_section" =>
        /\ result.kind = "tables"
        /\ EightRowsPerYear

=============================================================================
